---- MODULE Spec2Model ----
(***************************************************************************)
(* Model of the EBSA sales-intake form (d4ytona/ebsa-form).                *)
(*                                                                         *)
(*  Part A  api/submit-form.js : the serverless submission handler, the    *)
(*          Fijo_EBSA tab of the spreadsheet and the pedidos table.        *)
(*  Part B  api/upload-file    : the upload handler and the object store.  *)
(*  Part C  components/Form.tsx: the six-section form, its validation      *)
(*          predicates and the local-storage mirror.                       *)
(*  Part D  PlanSelector and the controls of Plan.tsx.                     *)
(*  Part E  utils/validators.ts: the formatters and validators.            *)
(*  Part F  FileUpload, the otros-documentos uploader.                     *)
(*  Part G  the Confirmacion page.                                         *)
(*  Part H  FechaAgendamientoSelector.                                     *)
(*  Part I  ProductosAdicionales.                                          *)
(*                                                                         *)
(* Strings whose characters matter (seller names, codes) are sequences of  *)
(* one-character strings; the JavaScript value undefined is Absent.        *)
(***************************************************************************)
EXTENDS Integers, Sequences, FiniteSets, TLC

VARIABLES
  cfg,         \* the inputs this specification draws from (fixed by Init)
  vendedores,  \* rows of the vendedores reference table
  codigos,     \* rows of the codigos_vendedor reference table
  sheet,       \* tab Fijo_EBSA: row number -> contents of the row
  pedidos,     \* rows of the pedidos table
  inv,         \* one record per handler invocation: its locals and position
  log,         \* per invocation, the backend mutations it has performed
  upl,         \* the upload request being handled: its body, position, answer
  bucket,      \* the objects of the storage bucket
  uploads,     \* upload requests received so far
  page,        \* the route shown: the form or the confirmation page
  fields,      \* the field state of Form
  collapsed,   \* per section, whether it is collapsed
  storage,     \* local-storage item ebsa-form-data
  strictEffects, \* whether the build double-invokes effects (StrictMode, dev)
  edits,       \* field edits made so far
  lastEvent,   \* the last user event, and the fields before a remount
  sel,         \* the props Plan hands to PlanSelector
  planesDB,    \* PlanSelector: the plan rows fetched
  loading,     \* PlanSelector: whether the fetch is still pending
  text,        \* the value of a text input the utilities are applied to
  applied,     \* the utility applied last, and the value it was applied to
  docs,        \* FileUpload of otros-documentos: the list and the batch in flight
  conf,        \* Confirmacion: its state and the requests it has sent
  cal,         \* FechaAgendamientoSelector: holidays fetched, date selected
  adic         \* ProductosAdicionales: the selection and the local quantities

submitVars == <<cfg, vendedores, codigos, sheet, pedidos, inv, log>>

uploadVars == <<upl, bucket, uploads>>

formVars == <<page, fields, collapsed, storage, strictEffects, edits, lastEvent>>

planVars == <<sel, planesDB, loading>>

utilVars == <<text, applied>>

clientVars == <<docs, conf, cal, adic>>

vars == <<submitVars, uploadVars, formVars, planVars, utilVars, clientVars>>

-----------------------------------------------------------------------------
(* Values *)

\* The JavaScript values undefined and null, as strings no input contains.
Absent == <<"<undefined>">>
Null == <<"<null>">>
EmptyStr == << >>

\* Invocations of the handler that may be in flight together.
NumInvocations == 2
H == 1..NumInvocations

\* Rows of the grid before the first submission (a header row).
InitialGridRows == 1

vA == <<"a">>
vAn == <<"a", "n">>
vAN == <<"A", "N">>
vOt == <<"o", "t">>
vBo == <<"b", "o">>
vPct == <<"%">>
vSp == <<" ">>
cC == <<"c">>
cCUp == <<"C">>
cX == <<"x">>
eqNorte == <<"n", "o">>

\* JavaScript truthiness of a string-or-undefined value.
Truthy(v) == v # Absent /\ v # Null /\ v # EmptyStr

\* A mutant of Tiene: the flag tells presence only, "" included.
TienePresent(v) == v # Absent

\* !!formData.<field> of the validation echo.
Tiene(v) == Truthy(v)

IsSpace(c) == c = " "

RECURSIVE TrimLeft(_)
TrimLeft(s) ==
  IF s = << >> THEN << >>
  ELSE IF IsSpace(Head(s)) THEN TrimLeft(Tail(s)) ELSE s

RECURSIVE TrimRight(_)
TrimRight(s) ==
  IF s = << >> THEN << >>
  ELSE IF IsSpace(s[Len(s)]) THEN TrimRight(SubSeq(s, 1, Len(s) - 1)) ELSE s

\* String.prototype.trim
Trim(s) == TrimRight(TrimLeft(s))

\* Case folding of ILIKE over the alphabet of the inputs.
LowerChar(c) ==
  CASE c = "A" -> "a"
    [] c = "N" -> "n"
    [] c = "O" -> "o"
    [] c = "T" -> "t"
    [] c = "B" -> "b"
    [] c = "C" -> "c"
    [] c = "X" -> "x"
    [] OTHER -> c

\* PostgreSQL  value ILIKE pattern : % matches any run, _ any one character.
RECURSIVE ILike(_, _)
ILike(s, p) ==
  IF p = << >> THEN s = << >>
  ELSE IF Head(p) = "%"
       THEN ILike(s, Tail(p)) \/ (s # << >> /\ ILike(Tail(s), p))
  ELSE IF Head(p) = "_"
       THEN s # << >> /\ ILike(Tail(s), Tail(p))
  ELSE s # << >> /\ LowerChar(Head(s)) = LowerChar(Head(p))
                 /\ ILike(Tail(s), Tail(p))

\* .single(): data is the row when exactly one row matches, otherwise null.
SingleFound(rows) == Cardinality(rows) = 1

-----------------------------------------------------------------------------
(* Part A: api/submit-form.js *)

\* The request body. Fields the handler only copies into the row are left out.
FormFields ==
  {"selectedVendedor", "selectedCodigo", "selectedMarca", "rut", "selectedPlan",
   "equipo"}

MkForm(vend, cod, marca, rut, plan, hi, htv, htel) ==
  [selectedVendedor |-> vend, selectedCodigo |-> cod, selectedMarca |-> marca,
   rut |-> rut, selectedPlan |-> plan, equipo |-> eqNorte,
   hasInternet |-> hi, hasTelevision |-> htv, hasTelefonia |-> htel]

NoForm == MkForm(Absent, Absent, Absent, Absent, Absent, FALSE, FALSE, FALSE)

Presence == {Absent, EmptyStr, vA}

\* Bodies that vary which of the echoed fields are present and non-empty.
PresencePayloads ==
  {MkForm(v, c, m, r, p, TRUE, FALSE, FALSE) :
     v \in Presence, c \in Presence, m \in Presence, r \in Presence, p \in Presence}

VendedorInputs == {Absent, EmptyStr, vSp, vAn, vAN, vOt, vBo, vPct}
CodigoInputs == {Absent, EmptyStr, cC, cCUp, cX, vPct}

\* Bodies that vary the seller name and the seller code.
LookupPayloads ==
  {MkForm(v, c, vA, vA, vA, TRUE, TRUE, FALSE) :
     v \in VendedorInputs, c \in CodigoInputs}

\* Bodies that vary the three service flags.
FlagPayloads ==
  {MkForm(vAn, cC, vA, vA, vA, hi, htv, htel) :
     hi \in BOOLEAN, htv \in BOOLEAN, htel \in BOOLEAN}

\* Two complete orders, for invocations that run together.
ConcurrentPayloads ==
  {MkForm(vAn, cC, vA, vA, vA, TRUE, TRUE, FALSE),
   MkForm(vBo, cX, vA, vA, vA, TRUE, FALSE, FALSE)}

\* vendedores has UNIQUE(nombre, equipo_id): a name may repeat across teams,
\* and insert-otro-codigo-vendedor.sql adds one "otro" row per team.
VendedoresTables ==
  {{[id |-> 1, nombre |-> vAn, equipo_id |-> 1],
    [id |-> 2, nombre |-> vOt, equipo_id |-> 1],
    [id |-> 3, nombre |-> vOt, equipo_id |-> 2]},
   {[id |-> 1, nombre |-> vAn, equipo_id |-> 1]}}

\* codigos_vendedor.codigo is UNIQUE.
CodigosTables == {{[id |-> 1, codigo |-> cC]}}

\* The bodies the requests of this specification carry.
Payloads ==
  IF cfg.inputs = "orders" THEN ConcurrentPayloads
  ELSE PresencePayloads \cup LookupPayloads \cup FlagPayloads

TestModes == {"validation", "supabase", "sheets", "normal"}
\* The HTTP methods the requests of this specification use.
Methods == IF cfg.inputs = "orders" THEN {"POST"} ELSE {"POST", "OPTIONS", "GET"}

NoData ==
  [tieneVendedor |-> FALSE, tieneCodigo |-> FALSE, tieneMarca |-> FALSE,
   tieneRut |-> FALSE, tienePlan |-> FALSE, camposRecibidos |-> 0]

NoResp ==
  [status |-> 0, success |-> FALSE, mode |-> "", pedidoId |-> 0, fila |-> 0,
   data |-> NoData]

IdleInv ==
  [pc |-> "idle", method |-> "", test |-> "", formData |-> NoForm, rgu |-> 0,
   nextRow |-> 0, vendedorParaSupabase |-> Null, codigoParaSupabase |-> Null,
   equipoParaSupabase |-> Null, resp |-> NoResp]

BlankRow == [kind |-> "blank", by |-> 0, formData |-> NoForm, rgu |-> 0]

\* The title row of the tab.
HeaderRow == [kind |-> "header", by |-> 0, formData |-> NoForm, rgu |-> 0]

\* Object.keys(formData).length over the modelled fields.
CamposRecibidos(fd) ==
  Cardinality({f \in FormFields : fd[f] # Absent}) + 3

\* [hasInternet, hasTelevision, hasTelefonia].filter(Boolean).length
\* A mutant of Rgu: telephony is not counted.
RguSinTelefonia(fd) ==
  (IF fd.hasInternet THEN 1 ELSE 0) + (IF fd.hasTelevision THEN 1 ELSE 0)

Rgu(fd) ==
  (IF fd.hasInternet THEN 1 ELSE 0) + (IF fd.hasTelevision THEN 1 ELSE 0)
    + (IF fd.hasTelefonia THEN 1 ELSE 0)

\* The data object of the ?test=validation response.
ValidationData(fd) ==
  [tieneVendedor |-> Tiene(fd.selectedVendedor),
   tieneCodigo |-> Tiene(fd.selectedCodigo),
   tieneMarca |-> Tiene(fd.selectedMarca),
   tieneRut |-> Tiene(fd.rut),
   tienePlan |-> Tiene(fd.selectedPlan),
   camposRecibidos |-> CamposRecibidos(fd)]

\* values.get of Fijo_EBSA!Q:Q returns the column up to its last non-empty
\* cell; every written row has its timestamp in Q.
RowsLength(sh) ==
  IF \E r \in DOMAIN sh : sh[r] # BlankRow
  THEN CHOOSE r \in DOMAIN sh :
         sh[r] # BlankRow /\ \A q \in DOMAIN sh : sh[q] # BlankRow => q <= r
  ELSE 0

\* const nextRow = rows.length + 1
NextRow(sh) == RowsLength(sh) + 1

\* fila_sheets: nextRow
FilaSheets(nr) == nr

\* The guard of both lookups: non-empty, not only blanks.
NonBlank(v) == Truthy(v) /\ Trim(v) # EmptyStr /\ v # vSp

VendedorMatches(name) == {v \in vendedores : ILike(v.nombre, name)}
CodigoMatches(code) == {c \in codigos : ILike(c.codigo, code)}

Resp(st, ok, mode, id, fila, data) ==
  [status |-> st, success |-> ok, mode |-> mode, pedidoId |-> id, fila |-> fila,
   data |-> data]

\* The request arrives; everything up to the first await runs here.
Receive(h, m, t, fd) ==
  /\ inv[h].pc = "idle"
  /\ inv' = [inv EXCEPT ![h] =
       IF m = "OPTIONS"
         THEN [@ EXCEPT !.pc = "done", !.method = m,
                        !.resp = Resp(200, FALSE, "", 0, 0, NoData)]
       ELSE IF m # "POST"
         THEN [@ EXCEPT !.pc = "done", !.method = m,
                        !.resp = Resp(405, FALSE, "", 0, 0, NoData)]
       ELSE IF t = "validation"
         THEN [@ EXCEPT !.pc = "done", !.method = m, !.test = t, !.formData = fd,
                        !.resp = Resp(200, TRUE, "validation", 0, 0,
                                      ValidationData(fd))]
       ELSE [@ EXCEPT !.pc = "getValues", !.method = m, !.test = t,
                      !.formData = fd, !.rgu = Rgu(fd)]]
  /\ UNCHANGED <<cfg, vendedores, codigos, sheet, pedidos, log>>

\* await sheets.spreadsheets.values.get(Fijo_EBSA!Q:Q)
GetValues(h) ==
  /\ inv[h].pc = "getValues"
  /\ inv' = [inv EXCEPT ![h].pc = "getMetadata", ![h].nextRow = NextRow(sheet)]
  /\ UNCHANGED <<cfg, vendedores, codigos, sheet, pedidos, log>>

\* await sheets.spreadsheets.get(): the tab Fijo_EBSA is found.
GetMetadata(h) ==
  /\ inv[h].pc = "getMetadata"
  /\ inv' = [inv EXCEPT ![h].pc = "appendDimension"]
  /\ UNCHANGED <<cfg, vendedores, codigos, sheet, pedidos, log>>

\* await batchUpdate(appendDimension ROWS 1): runs in every mode that gets here.
AppendDimension(h) ==
  /\ inv[h].pc = "appendDimension"
  /\ sheet' = Append(sheet, BlankRow)
  /\ log' = [log EXCEPT ![h] = Append(@, [op |-> "appendDimension", row |-> Len(sheet) + 1])]
  /\ inv' = [inv EXCEPT ![h].pc =
       IF inv[h].test # "supabase" THEN "batchUpdate" ELSE "vendedor"]
  /\ UNCHANGED <<cfg, vendedores, codigos, pedidos>>

\* await values.batchUpdate(updates): every mapped column at row nextRow.
BatchUpdate(h) ==
  /\ inv[h].pc = "batchUpdate"
  /\ inv[h].nextRow \in DOMAIN sheet
  /\ sheet' = [sheet EXCEPT ![inv[h].nextRow] =
       [kind |-> "order", by |-> h, formData |-> inv[h].formData,
        rgu |-> inv[h].rgu]]
  /\ log' = [log EXCEPT ![h] = Append(@, [op |-> "batchUpdate", row |-> inv[h].nextRow])]
  /\ inv' = [inv EXCEPT ![h] =
       IF inv[h].test = "sheets"
         THEN [@ EXCEPT !.pc = "done",
                        !.resp = Resp(200, TRUE, "sheets", 0, inv[h].nextRow, NoData)]
         ELSE [@ EXCEPT !.pc = "vendedor"]]
  /\ UNCHANGED <<cfg, vendedores, codigos, pedidos>>

\* A Google Sheets call rejects: the catch block answers 500.
SheetsError(h) ==
  /\ inv[h].pc \in {"getValues", "getMetadata", "appendDimension", "batchUpdate"}
  /\ inv' = [inv EXCEPT ![h].pc = "done",
                        ![h].resp = Resp(500, FALSE, "", 0, 0, NoData)]
  /\ UNCHANGED <<cfg, vendedores, codigos, sheet, pedidos, log>>

\* The seller lookup: vendedores where nombre ILIKE selectedVendedor, .single()
CheckVendedor(h) ==
  /\ inv[h].pc = "vendedor"
  /\ LET fd == inv[h].formData
         found == NonBlank(fd.selectedVendedor)
                    /\ SingleFound(VendedorMatches(fd.selectedVendedor))
     IN inv' = [inv EXCEPT ![h].pc = "codigo",
                  ![h].vendedorParaSupabase =
                     IF found THEN fd.selectedVendedor ELSE Null,
                  ![h].equipoParaSupabase = IF found THEN fd.equipo ELSE Null]
  /\ UNCHANGED <<cfg, vendedores, codigos, sheet, pedidos, log>>

\* The code lookup: codigos_vendedor where codigo ILIKE selectedCodigo, .single()
CheckCodigo(h) ==
  /\ inv[h].pc = "codigo"
  /\ LET fd == inv[h].formData
         found == NonBlank(fd.selectedCodigo)
                    /\ SingleFound(CodigoMatches(fd.selectedCodigo))
     IN inv' = [inv EXCEPT ![h].pc = "insert",
                  ![h].codigoParaSupabase =
                     IF found THEN fd.selectedCodigo ELSE Null]
  /\ UNCHANGED <<cfg, vendedores, codigos, sheet, pedidos, log>>

PedidoRow(h, id) ==
  [id |-> id, by |-> h,
   codigo_vendedor |-> inv[h].codigoParaSupabase,
   vendedor_id |-> inv[h].vendedorParaSupabase,
   equipo_id |-> inv[h].equipoParaSupabase,
   formData |-> inv[h].formData,
   rgu |-> inv[h].rgu,
   tiene_internet |-> inv[h].formData.hasInternet,
   tiene_television |-> inv[h].formData.hasTelevision,
   tiene_telefonia |-> inv[h].formData.hasTelefonia,
   fila_sheets |-> FilaSheets(inv[h].nextRow)]

FinalResp(h, id) ==
  IF inv[h].test = "supabase"
  THEN Resp(200, TRUE, "supabase", id, 0, NoData)
  ELSE Resp(200, TRUE, "normal", id, 0, NoData)

\* A mutant of InsertErrorResp: the insert error reaches the catch block.
InsertErrorThrows(h) == Resp(500, FALSE, "", 0, 0, NoData)

\* if (supabaseError) only logs; the response is built with pedidoData null.
InsertErrorResp(h) == FinalResp(h, 0)

\* await supabase.from("pedidos").insert(...) succeeds, then the response.
InsertPedido(h) ==
  /\ inv[h].pc = "insert"
  /\ LET id == Cardinality(pedidos) + 1
     IN /\ pedidos' = pedidos \cup {PedidoRow(h, id)}
        /\ log' = [log EXCEPT ![h] = Append(@, [op |-> "insert", row |-> id])]
        /\ inv' = [inv EXCEPT ![h].pc = "done", ![h].resp = FinalResp(h, id)]
  /\ UNCHANGED <<cfg, vendedores, codigos, sheet>>

\* The insert returns an error: it is logged, and the response goes out.
InsertError(h) ==
  /\ inv[h].pc = "insert"
  /\ inv' = [inv EXCEPT ![h].pc = "done", ![h].resp = InsertErrorResp(h)]
  /\ UNCHANGED <<cfg, vendedores, codigos, sheet, pedidos, log>>

InitSheet == [r \in 1..InitialGridRows |-> HeaderRow]

SubmitIdle ==
  /\ sheet = InitSheet
  /\ pedidos = {}
  /\ inv = [h \in H |-> IdleInv]
  /\ log = [h \in H |-> << >>]

-----------------------------------------------------------------------------
(* Part B: api/upload-file *)

\* Upload requests one behaviour handles, one after the other.
MaxUploads == 1

ALLOWED_TYPES ==
  [t \in {"image/jpeg", "image/jpg", "image/png", "image/webp", "application/pdf"} |->
     CASE t = "image/jpeg" -> "jpg"
       [] t = "image/jpg" -> "jpg"
       [] t = "image/png" -> "png"
       [] t = "image/webp" -> "webp"
       [] t = "application/pdf" -> "pdf"]

CATEGORIA_CONFIG ==
  [c \in {"rut-frontal", "rut-posterior", "factibilidad-app", "otros-documentos"} |->
     CASE c = "rut-frontal" -> [folder |-> "rut-frontal", suffix |-> "frontal"]
       [] c = "rut-posterior" -> [folder |-> "rut-posterior", suffix |-> "posterior"]
       [] c = "factibilidad-app" -> [folder |-> "factibilidad-app", suffix |-> "factibilidad"]
       [] c = "otros-documentos" -> [folder |-> "otros-documentos", suffix |-> "doc"]]

MAX_FILE_SIZE == 10 * 1024 * 1024

\* Names every object literal inherits from Object.prototype.
ObjectPrototypeKeys == {"constructor", "toString", "valueOf", "hasOwnProperty"}

\* What String(Object.prototype[k]) puts into a template literal.
InheritedText == "function"

\* obj[k] for an object literal: own keys first, then the prototype chain;
\* "" stands for undefined.
Lookup(obj, k) ==
  IF k \in DOMAIN obj THEN obj[k]
  ELSE IF k \in ObjectPrototypeKeys THEN InheritedText
  ELSE ""

\* !!obj[k] : whether the lookup yields a truthy value.
HasTruthy(obj, k) == k \in DOMAIN obj \/ k \in ObjectPrototypeKeys

\* ALLOWED_TYPES[contentType] is truthy.
AllowedType(ct) == HasTruthy(ALLOWED_TYPES, ct)

\* rut.replace(/[.-]/g, '')
RECURSIVE sanitizeRut(_)
sanitizeRut(rut) ==
  IF rut = << >> THEN << >>
  ELSE IF Head(rut) \in {".", "-"} THEN sanitizeRut(Tail(rut))
  ELSE <<Head(rut)>> \o sanitizeRut(Tail(rut))

\* The field file: an optional data-URL prefix, then base64 text of `groups`
\* four-character groups whose last one carries `pad` padding characters.
MkFile(dataUrl, groups, pad) == [dataUrl |-> dataUrl, groups |-> groups, pad |-> pad]

NoFile == MkFile(FALSE, 0, 0)

\* !!file : a string is truthy unless it is empty.
FileTruthy(f) == f.dataUrl \/ f.groups > 0

\* Buffer.from(file.replace(/^data:.*?;base64,/, ''), 'base64').length
DecodedLength(f) == IF f.groups = 0 THEN 0 ELSE 3 * f.groups - f.pad

\* No file, and files of 1 B, 10 MB, 10 MB + 1 B and 15 MB.
Files ==
  {NoFile, MkFile(FALSE, 1, 2), MkFile(TRUE, 3495254, 2),
   MkFile(FALSE, 3495254, 1), MkFile(TRUE, 5242880, 0)}

ContentTypes == {"", "image/jpeg", "image/png", "text/plain", "constructor"}

Categorias == {"rut-frontal", "otros-documentos", "fotos"}

Ruts == {<<"1", ".", "2", "-", "k">>, <<"1", "2", "k">>, <<"3", "-", "4">>}

\* docNumber: 0 stands for a request without it.
DocNumbers == {0, 1, 2}

UploadBodies ==
  [file : Files, filename : {"a.png", "b.jpg"}, contentType : ContentTypes,
   categoria : Categorias, rut : Ruts, docNumber : DocNumbers]

NoBody ==
  [file |-> NoFile, filename |-> "", contentType |-> "", categoria |-> "",
   rut |-> << >>, docNumber |-> 0]

NoKey == [folder |-> "", rut |-> << >>, suffix |-> "", n |-> 0, ext |-> ""]

UploadResp(st, ok, msg, key) ==
  [status |-> st, success |-> ok, message |-> msg, key |-> key]

IdleUpload ==
  [pc |-> "idle", method |-> "", body |-> NoBody, key |-> NoKey, puts |-> 0,
   resp |-> UploadResp(0, FALSE, "", NoKey)]

\* A mutant of DocNum: the number is appended in every category.
DocNumEverywhere(b) == IF b.docNumber # 0 THEN b.docNumber ELSE 1

\* const docNum = docNumber || 1, for otros-documentos only.
DocNum(b) ==
  IF b.categoria = "otros-documentos"
  THEN (IF b.docNumber # 0 THEN b.docNumber ELSE 1)
  ELSE 0

\* key = `${config.folder}/${rutSanitized}-${config.suffix}[-${docNum}].${extension}`
Key(b) ==
  [folder |-> CATEGORIA_CONFIG[b.categoria].folder,
   rut |-> sanitizeRut(b.rut),
   suffix |-> CATEGORIA_CONFIG[b.categoria].suffix,
   n |-> DocNum(b),
   ext |-> Lookup(ALLOWED_TYPES, b.contentType)]

\* The answer the validations give, or "" when the request passes them all.
Rejection(b) ==
  IF ~FileTruthy(b.file) \/ b.filename = "" \/ b.contentType = ""
       \/ b.categoria = "" \/ b.rut = << >>
    THEN "campos"
  ELSE IF ~HasTruthy(CATEGORIA_CONFIG, b.categoria) THEN "categoria"
  ELSE IF ~AllowedType(b.contentType) THEN "tipo"
  ELSE IF DecodedLength(b.file) > MAX_FILE_SIZE THEN "tamano"
  ELSE ""

\* The request arrives; everything up to await S3.send(command) runs here.
UploadReceive(m, b) ==
  /\ uploads' = uploads + 1
  /\ upl' =
       IF m = "OPTIONS"
         THEN [IdleUpload EXCEPT !.pc = "done", !.method = m,
                 !.resp = UploadResp(200, FALSE, "", NoKey)]
       ELSE IF m # "POST"
         THEN [IdleUpload EXCEPT !.pc = "done", !.method = m,
                 !.resp = UploadResp(405, FALSE, "method", NoKey)]
       ELSE IF Rejection(b) # ""
         THEN [IdleUpload EXCEPT !.pc = "done", !.method = m, !.body = b,
                 !.resp = UploadResp(400, FALSE, Rejection(b), NoKey)]
       ELSE [IdleUpload EXCEPT !.pc = "send", !.method = m, !.body = b,
               !.key = Key(b)]
  /\ UNCHANGED bucket

\* await S3.send(PutObjectCommand) succeeds: the object is stored under key.
UploadSend ==
  /\ upl.pc = "send"
  /\ bucket' =
       {o \in bucket : o.key # upl.key}
         \cup {[key |-> upl.key, size |-> DecodedLength(upl.body.file),
                 contentType |-> upl.body.contentType]}
  /\ upl' = [upl EXCEPT !.pc = "done", !.puts = @ + 1,
                        !.resp = UploadResp(200, TRUE, "", upl.key)]
  /\ UNCHANGED uploads

\* S3.send rejects: the catch block answers 500.
UploadSendError ==
  /\ upl.pc = "send"
  /\ upl' = [upl EXCEPT !.pc = "done",
                        !.resp = UploadResp(500, FALSE, "error", NoKey)]
  /\ UNCHANGED <<bucket, uploads>>

UploadIdle ==
  /\ upl = IdleUpload
  /\ bucket = {}
  /\ uploads = 0

UploadMethods == {"POST", "OPTIONS", "GET"}

-----------------------------------------------------------------------------
(* Part E: utils/validators.ts *)

\* The longest input drawn from every string over Alphabet; the longer inputs
\* are the ones listed.
MaxLen == 3

\* \d
Digits == {"0", "1", "2", "3", "4", "5", "6", "7", "8", "9"}

\* a-zA-Z and the accented letters the address pattern lists
Letters ==
   {"a", "b", "c", "d", "e", "f", "g", "h", "i", "j", "k", "l", "m", "n",
    "o", "p", "q", "r", "s", "t", "u", "v", "w", "x", "y", "z", "A", "B",
    "C", "D", "E", "F", "G", "H", "I", "J", "K", "L", "M", "N", "O", "P",
    "Q", "R", "S", "T", "U", "V", "W", "X", "Y", "Z", "á", "é", "í", "ó",
    "ú", "Á", "É", "Í", "Ó", "Ú", "ñ", "Ñ"}

\* \s over the characters the inputs use
Whitespace == {" ", "\t", "\n"}

\* [a-zA-Z0-9áéíóúÁÉÍÓÚñÑ\s.'#-]
AddressChars == Letters \cup Digits \cup Whitespace \cup {".", "'", "#", "-"}

\* A mutant of validateRut: six digits are enough.
validateRutSixDigits(rut) ==
  /\ Len(rut) \in {8, 9, 10}
  /\ \A i \in 1..(Len(rut) - 2) : rut[i] \in Digits
  /\ rut[Len(rut) - 1] = "-"
  /\ rut[Len(rut)] \in Digits \cup {"k", "K"}

\* /^\d{7,8}-[\dk]$/i
validateRut(rut) ==
  /\ Len(rut) \in {9, 10}
  /\ \A i \in 1..(Len(rut) - 2) : rut[i] \in Digits
  /\ rut[Len(rut) - 1] = "-"
  /\ rut[Len(rut)] \in Digits \cup {"k", "K"}

\* A mutant of formatRut: the hyphen is added to what is already there.
formatRutKeepsHyphen(value) ==
  LET cleaned == SelectSeq(value, LAMBDA c : c \in Digits \cup {"k", "K", "-"})
      lowered == [i \in 1..Len(cleaned) |-> IF cleaned[i] = "K" THEN "k" ELSE cleaned[i]]
  IN IF Len(lowered) > 1
     THEN SubSeq(lowered, 1, Len(lowered) - 1) \o <<"-">> \o <<lowered[Len(lowered)]>>
     ELSE lowered

\* value.replace(/[^\dkK]/g, '').toLowerCase(), then a hyphen before the last
\* character when there is more than one.
formatRut(value) ==
  LET cleaned == SelectSeq(value, LAMBDA c : c \in Digits \cup {"k", "K"})
      lowered == [i \in 1..Len(cleaned) |-> IF cleaned[i] = "K" THEN "k" ELSE cleaned[i]]
  IN IF Len(lowered) > 1
     THEN SubSeq(lowered, 1, Len(lowered) - 1) \o <<"-">> \o <<lowered[Len(lowered)]>>
     ELSE lowered

\* A mutant of validatePhone: the pattern is not anchored at the end.
validatePhoneOpenEnded(phone) ==
  /\ Len(phone) >= 9
  /\ phone[1] = "9"
  /\ \A i \in 2..9 : phone[i] \in Digits

\* /^9\d{8}$/
validatePhone(phone) ==
  /\ Len(phone) = 9
  /\ phone[1] = "9"
  /\ \A i \in 2..9 : phone[i] \in Digits

\* value.replace(/\D/g, '').slice(0, 9)
formatPhone(value) ==
  LET digits == SelectSeq(value, LAMBDA c : c \in Digits)
  IN SubSeq(digits, 1, IF Len(digits) < 9 THEN Len(digits) ELSE 9)

\* /^[a-zA-Z0-9áéíóúÁÉÍÓÚñÑ\s.'#-]+$/
validateAddress(address) ==
  /\ Len(address) >= 1
  /\ \A i \in 1..Len(address) : address[i] \in AddressChars

\* A mutant of formatAddress: the value is handed on as typed.
formatAddressAsTyped(value) == value

\* value.replace(/[^a-zA-Z0-9áéíóúÁÉÍÓÚñÑ\s.'#-]/g, '')
formatAddress(value) == SelectSeq(value, LAMBDA c : c \in AddressChars)

\* The characters of the short inputs.
Alphabet == {"1", "9", "k", "K", "-", "a", "@", " "}

RECURSIVE StringsUpTo(_)
StringsUpTo(n) ==
  IF n = 0 THEN {<< >>}
  ELSE StringsUpTo(n - 1)
         \cup {Append(t, c) : t \in {u \in StringsUpTo(n - 1) : Len(u) = n - 1},
                              c \in Alphabet}

RutInputs ==
  {<<"1", "2", "3", "4", "5", "6", "7", "8", "-", "5">>,
   <<"1", "0", "0", "0", "0", "0", "5", "-", "k">>,
   <<"1", "0", "0", "0", "0", "0", "5", "-", "K">>,
   <<"1", "2", "3", "4", "5", "6", "7", "-", "9">>,
   <<"1", "2", "3", "4", "5", "6", "7", "8", "-", "k">>,
   <<"1", "2", "3", "4", "5", "6", "7", "8", "-", "K">>,
   <<"1", "2", "3", "4", "5", "6", "-", "7">>,
   <<"1", "2", "3", "4", "5", "6", "7", "8", "9", "-", "1">>,
   <<"1", "2", "3", "4", "5", "6", "7", "8", "-", "a">>,
   <<"1", "2", "3", "4", "5", "6", "7", "8", "k">>,
   <<"1", "2", ".", "3", "4", "5", ".", "6", "7", "8", "-", "9">>,
   <<"1", "2", "3", "4", "5", "6", "7", "-", "9", "\n">>,
   <<"1", "2", "3", "4", "5", "6", "7", "8", "_", "9">>,
   <<"a", "2", "3", "4", "5", "6", "7", "8", "-", "9">>}

PhoneInputs ==
  {<<"9", "8", "7", "6", "5", "4", "3", "2", "1">>,
   <<"8", "8", "7", "6", "5", "4", "3", "2", "1">>,
   <<"9", "8", "7", "6", "5", "4", "3", "2">>,
   <<"9", "8", "7", "6", "5", "4", "3", "2", "1", "0">>,
   <<"+", "5", "6", " ", "9", " ", "8", "7", "6", "5", " ", "4", "3", "2", "1">>,
   <<"9", "8", "7", "6", "5", "4", "3", "2", "a">>,
   <<"9", "8", "7", "6", "5", "4", "3", "2", "1", "\n">>,
   <<"9", " ", "8", "7", "6", "5", "4", "3", "2", "1">>}

AddressInputs ==
  {<<"A", "v", ".", " ", "1", " ", "#", "2">>,
   <<"C", "a", "l", "l", "e", " ", "@", " ", "1">>,
   <<"ñ", "u", "'", "-">>}

\* What a user may type or paste into a text input.
TextInputs == StringsUpTo(MaxLen) \cup RutInputs \cup PhoneInputs \cup AddressInputs

NoneApplied == [fn |-> "", to |-> << >>, ok |-> FALSE]

\* An input's onChange: the value is replaced by its formatted form.
Format(fn, formatted) ==
  /\ text' = formatted
  /\ applied' = [fn |-> fn, to |-> text, ok |-> TRUE]

\* A validator is run on the value; the input keeps it.
Validate(fn, ok) ==
  /\ applied' = [fn |-> fn, to |-> text, ok |-> ok]
  /\ applied' # applied
  /\ UNCHANGED text

UtilIdle ==
  /\ text = << >>
  /\ applied = NoneApplied

\* The text typed into the Direccion input, by the value Form holds for it.
DireccionChars(d) ==
  CASE d = "" -> << >>
    [] d = "x" -> <<"x">>
    [] d = "@" -> <<"@">>
    [] d = "x@" -> <<"x", "@">>

DireccionTyped == {"", "x", "@", "x@"}

\* Direccion.handleDireccionChange: onDireccionChange(formatAddress(value))
handleDireccionChange(value) ==
  CHOOSE d \in DireccionTyped : DireccionChars(d) = formatAddress(DireccionChars(value))

-----------------------------------------------------------------------------
(* Part C: components/Form.tsx *)

\* Field edits one behaviour makes; header and Continue clicks are not counted.
MaxEdits == 3

Sections ==
  <<"general", "solicitante", "direccion", "plan", "adicionales", "infoAdicional">>

SectionSet == {Sections[i] : i \in DOMAIN Sections}

\* tipoContratoVendedor === null
NoContract == "<null>"

\* The useState initial values. nombreEquipo and the four lists of uploaded
\* URLs are left out: no predicate reads them.
DefaultFields ==
  [selectedVendedor |-> "", tipoContratoVendedor |-> NoContract,
   selectedTipoAgente |-> "", selectedMarca |-> "", selectedCodigo |-> "",
   selectedSegmento |-> "", selectedTipoVenta |-> "",
   rut |-> "", nombres |-> "", apellidos |-> "", fechaNacimiento |-> "",
   numeroContacto |-> "", email |-> "", nombreEmpresa |-> "", rutEmpresa |-> "",
   region |-> "", comuna |-> "", direccion |-> "",
   hasInternet |-> FALSE, hasTelevision |-> FALSE, hasTelefonia |-> FALSE,
   velocidadInternet |-> "", tipoTelevision |-> "", selectedPlan |-> "",
   selectedAdicionales |-> {},
   fechaAgendamiento |-> "", tramoInstalacion |-> "", tipoCampana |-> "",
   comentarioVendedor |-> ""]

BoolKeys == {"hasInternet", "hasTelevision", "hasTelefonia"}

ListKeys == {"selectedAdicionales"}

\* General expanded, the other five collapsed.
InitialCollapsed == [s \in SectionSet |-> s # "general"]

canContinueGeneral(f) ==
  IF f.tipoContratoVendedor = NoContract /\ f.selectedTipoAgente = "" THEN FALSE
  ELSE f.selectedMarca # "" /\ f.selectedSegmento # "" /\ f.selectedTipoVenta # ""

canContinueSolicitante(f) ==
  IF f.selectedSegmento = "residencial"
    THEN f.rut # "" /\ f.nombres # "" /\ f.apellidos # "" /\ f.fechaNacimiento # ""
           /\ f.numeroContacto # "" /\ f.email # ""
  ELSE IF f.selectedSegmento = "negocio"
    THEN f.nombreEmpresa # "" /\ f.rutEmpresa # "" /\ f.rut # "" /\ f.nombres # ""
           /\ f.apellidos # "" /\ f.fechaNacimiento # ""
           /\ f.numeroContacto # "" /\ f.email # ""
  ELSE FALSE

canContinueDireccion(f) == f.region # "" /\ f.comuna # "" /\ f.direccion # ""

\* Plan.tsx: whether the plan options are shown.
shouldShowPlans(f) ==
  IF ~f.hasInternet /\ ~f.hasTelevision /\ ~f.hasTelefonia THEN FALSE
  ELSE IF f.selectedSegmento = "residencial" /\ f.hasInternet /\ f.velocidadInternet = ""
    THEN FALSE
  ELSE IF f.selectedSegmento = "residencial" /\ f.hasTelevision /\ f.tipoTelevision = ""
    THEN FALSE
  ELSE TRUE

canContinuePlan(f) ==
  IF ~f.hasInternet /\ ~f.hasTelevision /\ ~f.hasTelefonia THEN FALSE
  ELSE IF f.selectedSegmento = "residencial" /\ f.hasInternet /\ f.velocidadInternet = ""
    THEN FALSE
  ELSE IF f.selectedSegmento = "residencial" /\ f.hasTelevision /\ f.tipoTelevision = ""
    THEN FALSE
  ELSE IF f.selectedPlan = "" THEN FALSE
  ELSE TRUE

canContinueInfoAdicional(f) ==
  f.fechaAgendamiento # "" /\ f.tramoInstalacion # "" /\ f.tipoCampana # ""

\* The canContinue prop each section's Continue button is rendered with.
CanContinue(s, f) ==
  CASE s = "general" -> canContinueGeneral(f)
    [] s = "solicitante" -> canContinueSolicitante(f)
    [] s = "direccion" -> canContinueDireccion(f)
    [] s = "plan" -> canContinuePlan(f)
    [] s = "adicionales" -> TRUE
    [] s = "infoAdicional" -> canContinueInfoAdicional(f)

\* A mutant of CanExpand: every header answers clicks.
CanExpandAlways(s, f) == TRUE

\* The canExpand prop that guards each section's header; the header of
\* General carries no guard.
CanExpand(s, f) ==
  CASE s = "general" -> TRUE
    [] s = "solicitante" -> canContinueGeneral(f)
    [] s = "direccion" -> canContinueSolicitante(f)
    [] s = "plan" -> canContinueDireccion(f)
    [] s = "adicionales" -> canContinuePlan(f)
    [] s = "infoAdicional" -> canContinuePlan(f)

\* A mutant of closeAllSectionsExcept: General is left as it is.
closeAllSectionsExceptGeneral(col, keep) ==
  [t \in SectionSet |-> IF t # keep /\ t # "general" THEN TRUE ELSE col[t]]

closeAllSectionsExcept(col, keep) ==
  [t \in SectionSet |-> IF t # keep THEN TRUE ELSE col[t]]

\* localStorage.getItem returns null when nothing was saved.
NoItem == [saved |-> FALSE, data |-> DefaultFields]

\* localStorage.setItem("ebsa-form-data", JSON.stringify(formData))
SaveEffect(f) == [saved |-> TRUE, data |-> f]

\* data.<field> || <initial value>, field by field.
Restore(data) ==
  [k \in DOMAIN DefaultFields |->
     IF k \in BoolKeys \cup ListKeys THEN data[k]
     ELSE IF data[k] \in {"", NoContract} THEN DefaultFields[k]
     ELSE data[k]]

\* The load effect: the field state its setters leave once they are applied.
LoadEffect(st, f) == IF st.saved THEN Restore(st.data) ELSE f

\* A mutant of PlanEffect: only Internet is forced on.
PlanEffectInternetOnly(f) ==
  IF f.selectedTipoVenta = "paquetizacion" THEN [f EXCEPT !.hasInternet = TRUE] ELSE f

\* Plan.tsx: paquetizacion forces the three services on.
PlanEffect(f) ==
  IF f.selectedTipoVenta = "paquetizacion"
  THEN [f EXCEPT !.hasInternet = TRUE, !.hasTelevision = TRUE, !.hasTelefonia = TRUE]
  ELSE f

\* Mounting Form over local-storage item st. The effects run against the first
\* render, whose fields are the initial values: the load effect queues its
\* setters, the save effect writes the initial values. A build with
\* strictEffects runs both effects a second time before the queue is applied.
Mount(st, strict) ==
  LET first == LoadEffect(st, DefaultFields)
      written == SaveEffect(DefaultFields)
      second == IF strict THEN LoadEffect(written, first) ELSE first
      settled == PlanEffect(second)
  IN [fields |-> settled,
      storage |-> IF settled # DefaultFields THEN SaveEffect(settled) ELSE written]

Regions == {"r1", "r2"}

ComunasOf(r) == IF r = "r1" THEN {"c1"} ELSE IF r = "r2" THEN {"c2"} ELSE {}

\* ComunaAutocomplete: the comuna is cleared when no region is selected, or
\* when the comunas of the region have loaded and it is not one of them.
ComunaEffect(f, loaded) ==
  IF f.region = "" THEN [f EXCEPT !.comuna = ""]
  ELSE IF f.comuna # "" /\ loaded /\ f.comuna \notin ComunasOf(f.region)
    THEN [f EXCEPT !.comuna = ""]
  ELSE f

\* The section a field is rendered in.
SectionOf(k) ==
  IF k \in {"selectedVendedor", "tipoContratoVendedor", "selectedTipoAgente",
            "selectedMarca", "selectedCodigo", "selectedSegmento", "selectedTipoVenta"}
    THEN "general"
  ELSE IF k \in {"rut", "nombres", "apellidos", "fechaNacimiento", "numeroContacto",
                 "email", "nombreEmpresa", "rutEmpresa"}
    THEN "solicitante"
  ELSE IF k \in {"region", "comuna", "direccion"} THEN "direccion"
  ELSE IF k \in {"hasInternet", "hasTelevision", "hasTelefonia", "velocidadInternet",
                 "tipoTelevision", "selectedPlan"}
    THEN "plan"
  ELSE IF k = "selectedAdicionales" THEN "adicionales"
  ELSE "infoAdicional"

\* The fields whose control hands its value to the plain state setter.
PlainKeys ==
  {"selectedTipoAgente", "selectedMarca", "selectedCodigo", "selectedSegmento",
   "selectedTipoVenta", "rut", "nombres", "apellidos", "numeroContacto", "email",
   "nombreEmpresa", "rutEmpresa", "comuna", "direccion", "hasInternet",
   "hasTelevision", "hasTelefonia", "velocidadInternet", "tipoTelevision",
   "selectedPlan", "selectedAdicionales", "tramoInstalacion", "tipoCampana",
   "comentarioVendedor"}

\* The values a control can emit: radio groups cannot be cleared, text inputs
\* can, the code input emits " " for an empty entry.
FieldInputs(k, f) ==
  CASE k = "selectedTipoAgente" -> {"Honorario"}
    [] k = "selectedMarca" -> {"m1"}
    [] k = "selectedCodigo" -> {" ", "C1"}
    [] k = "selectedSegmento" -> {"residencial", "negocio"}
    [] k = "selectedTipoVenta" -> {"nueva", "paquetizacion"}
    [] k = "comuna" -> ComunasOf(f.region)
    [] k = "direccion" -> {handleDireccionChange(t) : t \in DireccionTyped}
    [] k \in BoolKeys -> BOOLEAN
    [] k = "velocidadInternet" -> {"500MB"}
    [] k = "tipoTelevision" -> {"Inicia"}
    [] k = "selectedPlan" -> {"plan1"}
    [] k = "selectedAdicionales" -> {{}, {"deco"}}
    [] k = "tramoInstalacion" -> {"t1"}
    [] k = "tipoCampana" -> {"c1"}
    [] OTHER -> {"", "x"}

\* Whether the control of a field is rendered and enabled.
Rendered(k, f, col) ==
  /\ ~col[SectionOf(k)]
  /\ CASE k = "selectedTipoAgente" ->
            f.selectedVendedor # "" /\ f.tipoContratoVendedor = NoContract
       [] k \in {"nombreEmpresa", "rutEmpresa"} -> f.selectedSegmento = "negocio"
       [] k = "comuna" -> f.region # ""
       [] k \in BoolKeys -> f.selectedTipoVenta # "paquetizacion"
       [] k = "velocidadInternet" -> f.hasInternet /\ f.selectedSegmento = "residencial"
       [] k = "tipoTelevision" -> f.hasTelevision /\ f.selectedSegmento = "residencial"
       [] k = "selectedPlan" -> shouldShowPlans(f)
       [] OTHER -> TRUE

NoBefore == DefaultFields

Event(kind, section, before) == [kind |-> kind, section |-> section, before |-> before]

\* A field edit: the new fields are rendered and the save effect mirrors them.
Edited(f, section) ==
  /\ page = "form"
  /\ edits < MaxEdits
  /\ f # fields
  /\ fields' = PlanEffect(f)
  /\ storage' = SaveEffect(fields')
  /\ edits' = edits + 1
  /\ lastEvent' = Event("edit", section, NoBefore)
  /\ UNCHANGED <<page, collapsed, strictEffects>>

\* A control calls its state setter.
SetField(k, v) ==
  /\ Rendered(k, fields, collapsed)
  /\ Edited([fields EXCEPT ![k] = v], SectionOf(k))

handleVendedorChange(vendedor, tipoContrato) ==
  /\ ~collapsed["general"]
  /\ Edited([fields EXCEPT
               !.selectedVendedor = vendedor,
               !.tipoContratoVendedor = tipoContrato,
               !.selectedTipoAgente = IF tipoContrato # NoContract THEN "" ELSE @],
            "general")

\* RegionAutocomplete hands every keystroke on; ComunaAutocomplete reacts.
onRegionChange(region, loaded) ==
  /\ ~collapsed["direccion"]
  /\ Edited(ComunaEffect([fields EXCEPT !.region = region], loaded), "direccion")

\* InformacionAdicional: a new date resets a tramo that is no longer offered.
onFechaChange(fecha, offered) ==
  /\ ~collapsed["infoAdicional"]
  /\ Edited([fields EXCEPT
               !.fechaAgendamiento = fecha,
               !.tramoInstalacion = IF offered THEN @ ELSE ""],
            "infoAdicional")

\* The sections shown after an event, and the effects of what it mounted:
\* the controls of Direccion are mounted when the section is expanded.
Shown(col, kind, section, loaded) ==
  /\ collapsed' = col
  /\ fields' =
       IF collapsed["direccion"] /\ ~col["direccion"]
       THEN ComunaEffect(fields, loaded) ELSE fields
  /\ storage' = SaveEffect(fields')
  /\ lastEvent' = Event(kind, section, NoBefore)
  /\ UNCHANGED <<page, strictEffects, edits>>

\* A click on the header of section s.
onToggle(s, loaded) ==
  /\ page = "form"
  /\ CanExpand(s, fields)
  /\ Shown(IF collapsed[s]
           THEN [closeAllSectionsExcept(collapsed, s) EXCEPT ![s] = FALSE]
           ELSE [collapsed EXCEPT ![s] = TRUE],
           "toggle", s, loaded)

\* A mutant of ContinueTo: the sections that were open stay open.
ContinueKeepsOpen(s, next, loaded) ==
  /\ page = "form"
  /\ ~collapsed[s]
  /\ CanContinue(s, fields)
  /\ Shown([collapsed EXCEPT ![next] = FALSE], "continue", s, loaded)

\* A click on the Continue button of section s, which expands section next.
ContinueTo(s, next, loaded) ==
  /\ page = "form"
  /\ ~collapsed[s]
  /\ CanContinue(s, fields)
  /\ Shown([closeAllSectionsExcept(collapsed, next) EXCEPT ![next] = FALSE],
           "continue", s, loaded)

handleContinueGeneral == ContinueTo("general", "solicitante", TRUE)

handleContinueSolicitante == \E loaded \in BOOLEAN : ContinueTo("solicitante", "direccion", loaded)

handleContinueDireccion == ContinueTo("direccion", "plan", TRUE)

handleContinuePlan == ContinueTo("plan", "adicionales", TRUE)

handleContinueAdicionales == ContinueTo("adicionales", "infoAdicional", TRUE)

\* navigate('/confirmacion', { state: { formData } })
handleFinalizar ==
  /\ page = "form"
  /\ ~collapsed["infoAdicional"]
  /\ CanContinue("infoAdicional", fields)
  /\ page' = "confirmacion"
  /\ lastEvent' = Event("finalizar", "infoAdicional", NoBefore)
  /\ UNCHANGED <<fields, collapsed, storage, strictEffects, edits>>

\* Form is mounted again over what local storage holds.
Remount(kind) ==
  /\ fields' = Mount(storage, strictEffects).fields
  /\ storage' = Mount(storage, strictEffects).storage
  /\ collapsed' = InitialCollapsed
  /\ page' = "form"
  /\ lastEvent' = Event(kind, "", fields)
  /\ UNCHANGED <<strictEffects, edits>>

\* The page is reloaded while the form is shown.
Reload == page = "form" /\ Remount("reload")

\* Confirmacion: the back button navigates to the form.
handleRegresar == page = "confirmacion" /\ Remount("regresar")

\* A complete section of each kind, as an earlier session saved it.
GeneralDone ==
  [DefaultFields EXCEPT
     !.selectedVendedor = "x", !.tipoContratoVendedor = "Contratado",
     !.selectedMarca = "m1", !.selectedCodigo = "C1",
     !.selectedSegmento = "residencial", !.selectedTipoVenta = "nueva"]

SolicitanteDone ==
  [GeneralDone EXCEPT
     !.rut = "x", !.nombres = "x", !.apellidos = "x", !.fechaNacimiento = "x",
     !.numeroContacto = "x", !.email = "x"]

DireccionDone ==
  [SolicitanteDone EXCEPT !.region = "r1", !.comuna = "c1", !.direccion = "x"]

PlanDone ==
  [DireccionDone EXCEPT
     !.hasInternet = TRUE, !.velocidadInternet = "500MB", !.selectedPlan = "plan1"]

InfoAdicionalDone ==
  [PlanDone EXCEPT
     !.fechaAgendamiento = "d1", !.tramoInstalacion = "t1", !.tipoCampana = "c1"]

\* What local storage holds when the form is first opened: nothing, or the
\* fields of an earlier session. No control of this version sets
\* fechaNacimiento, so only an item saved before carries it.
StoredBefore ==
  {NoItem} \cup
    {SaveEffect(f) :
       f \in {GeneralDone, SolicitanteDone, DireccionDone, PlanDone, InfoAdicionalDone,
              [SolicitanteDone EXCEPT !.selectedSegmento = "negocio"]}}

FormIdle ==
  /\ page = "form"
  /\ fields = DefaultFields
  /\ collapsed = InitialCollapsed
  /\ storage = NoItem
  /\ strictEffects = FALSE
  /\ edits = 0
  /\ lastEvent = Event("mount", "", NoBefore)

-----------------------------------------------------------------------------
(* Part D: components/PlanSelector and the controls of Plan.tsx *)

\* The radio values Plan.tsx offers (two of the four speeds, two of the three
\* tiers) and the values of the enums velocidad_internet and tipo_plan_tv.
Velocidades == {"500MB", "600MB"}

TiposTv == {"Plus", "Premium"}

\* String.prototype.toLowerCase over the values in use.
toLowerCase(s) ==
  CASE s = "500MB" -> "500mb"
    [] s = "600MB" -> "600mb"
    [] s = "Plus" -> "plus"
    [] s = "Premium" -> "premium"
    [] OTHER -> s

\* A nullable integer column: << >> is NULL, <<n>> the value n.
NullInt == << >>

\* A nullable boolean column as the fetch returns it.
DbFlag(b) == IF b THEN "true" ELSE "false"

PlanRow(nombre, categoria, ia, iv, ta, tp, tel, dn, de) ==
  [nombre |-> nombre, categoria |-> categoria,
   internet_activo |-> ia, internet_velocidad |-> iv,
   television_activa |-> ta, television_plan |-> tp,
   telefonia_activa |-> tel,
   descuento_nacional |-> dn, descuento_especial |-> de]

Categorias_rgu == {"1_rgu", "2_rgu", "3_rgu", "paquetizacion"}

\* The speed and tier columns of a row: a value when the service is active,
\* NULL when it is not or when the column was left empty.
VelocidadesDe(ia) == IF ia = "true" THEN {"500mb", "600mb"} ELSE {"null"}

PlanesTvDe(ta) == IF ta = "true" THEN {"plus", "premium"} ELSE {"null"}

\* Rows that differ in what the filter reads.
FilterRows ==
  UNION {{PlanRow("p1", c, ia, iv, ta, tp, tel, <<5>>, NullInt) :
            c \in Categorias_rgu, iv \in VelocidadesDe(ia), tp \in PlanesTvDe(ta),
            tel \in {"true", "false", "null"}} :
         ia \in {"true", "false"}, ta \in {"true", "false"}}
  \cup {PlanRow("p1", "2_rgu", "true", "null", "true", "plus", "false", <<5>>, NullInt),
        PlanRow("p1", "2_rgu", "true", "500mb", "true", "null", "false", <<5>>, NullInt)}

DiscountPairs ==
  {<<NullInt, NullInt>>, <<<<0>>, NullInt>>, <<<<5>>, NullInt>>, <<NullInt, <<3>>>>,
   <<<<5>>, <<3>>>>, <<<<0>>, <<3>>>>, <<<<5>>, <<0>>>>, <<<<0>>, <<0>>>>}

\* Rows of one shape that differ in their discounts.
DiscountRows ==
  {PlanRow("p2", "2_rgu", "true", "500mb", "true", "plus", "false", d[1], d[2]) :
     d \in DiscountPairs}

\* A fetch result of several rows: one that fits Internet 500MB + TV Plus,
\* and rows that each miss one condition.
MixedTable ==
  <<PlanRow("p1", "2_rgu", "true", "500mb", "true", "plus", "false", <<5>>, <<3>>),
    PlanRow("p2", "3_rgu", "true", "500mb", "true", "plus", "false", <<5>>, NullInt),
    PlanRow("p2", "2_rgu", "true", "600mb", "true", "plus", "false", <<5>>, NullInt),
    PlanRow("p2", "2_rgu", "true", "500mb", "true", "premium", "false", NullInt, NullInt),
    PlanRow("p2", "2_rgu", "true", "500mb", "true", "plus", "true", <<5>>, NullInt),
    PlanRow("p2", "2_rgu", "true", "500mb", "true", "plus", "false", NullInt, <<3>>)>>

\* What getPlanes may return for one brand and segment.
PlanTables ==
  {<<r>> : r \in FilterRows \cup DiscountRows} \cup {MixedTable, << >>}

\* [hasInternet, hasTelevision, hasTelefonia].filter(Boolean).length
serviciosActivos(f) ==
  (IF f.hasInternet THEN 1 ELSE 0) + (IF f.hasTelevision THEN 1 ELSE 0)
    + (IF f.hasTelefonia THEN 1 ELSE 0)

categoria(f) ==
  IF f.selectedTipoVenta = "paquetizacion" THEN "paquetizacion"
  ELSE CASE serviciosActivos(f) = 0 -> "0_rgu"
         [] serviciosActivos(f) = 1 -> "1_rgu"
         [] serviciosActivos(f) = 2 -> "2_rgu"
         [] serviciosActivos(f) = 3 -> "3_rgu"

\* A mutant of Aceptado: the speed and the tier are not compared.
AceptadoPorServicios(planDB, f) ==
  /\ planDB.internet_activo = DbFlag(f.hasInternet)
  /\ planDB.television_activa = DbFlag(f.hasTelevision)
  /\ planDB.telefonia_activa = DbFlag(f.hasTelefonia)

\* The second filter of planesDisponibles: the row's services are the ones
\* selected and, for residencial, its speed and tier are the ones selected.
Aceptado(planDB, f) ==
  IF planDB.internet_activo # DbFlag(f.hasInternet) THEN FALSE
  ELSE IF planDB.television_activa # DbFlag(f.hasTelevision) THEN FALSE
  ELSE IF planDB.telefonia_activa # DbFlag(f.hasTelefonia) THEN FALSE
  ELSE IF /\ f.hasInternet /\ f.selectedSegmento = "residencial"
          /\ f.velocidadInternet # ""
          /\ planDB.internet_velocidad # toLowerCase(f.velocidadInternet) THEN FALSE
  ELSE IF /\ f.hasTelevision /\ f.selectedSegmento = "residencial"
          /\ f.tipoTelevision # ""
          /\ planDB.television_plan # toLowerCase(f.tipoTelevision) THEN FALSE
  ELSE TRUE

\* planesFiltrados: the positions in planesDB of the rows both filters keep.
planesFiltrados(db, f) ==
  SelectSeq([i \in 1..Len(db) |-> i],
            LAMBDA i : db[i].categoria = categoria(f) /\ Aceptado(db[i], f))

tieneDescuento(d) == d # NullInt /\ d[1] > 0

\* normalizarNombre(nombre) + " - " + marca.toUpperCase(): the label is kept
\* as the row's name, the discount it was expanded for and the brand.
NombreOpcion(nombre, descuento, marca) ==
  [nombre |-> nombre, descuento |-> descuento, marca |-> marca]

convertirPlan(i, nombre, descuentoNacional, descuentoEspecial) ==
  [fila |-> i, nombre |-> nombre,
   descuento_nacional |-> descuentoNacional,
   descuento_especial |-> descuentoEspecial]

\* descuento_nacional || 0
OrZero(d) == IF d = NullInt THEN <<0>> ELSE d

\* A mutant of Expandir: a row with a national discount yields that option only.
ExpandirPrimero(db, i, marca) ==
  IF tieneDescuento(db[i].descuento_nacional)
    THEN <<convertirPlan(i, NombreOpcion(db[i].nombre, "Nacional", marca),
                         db[i].descuento_nacional, NullInt)>>
  ELSE IF tieneDescuento(db[i].descuento_especial)
    THEN <<convertirPlan(i, NombreOpcion(db[i].nombre, "Especial", marca),
                         <<0>>, db[i].descuento_especial)>>
  ELSE <<convertirPlan(i, NombreOpcion(db[i].nombre, "", marca),
                       OrZero(db[i].descuento_nacional), db[i].descuento_especial)>>

\* The options one filtered row is expanded into.
Expandir(db, i, marca) ==
  (IF tieneDescuento(db[i].descuento_nacional)
     THEN <<convertirPlan(i, NombreOpcion(db[i].nombre, "Nacional", marca),
                          db[i].descuento_nacional, NullInt)>>
     ELSE << >>)
  \o (IF tieneDescuento(db[i].descuento_especial)
        THEN <<convertirPlan(i, NombreOpcion(db[i].nombre, "Especial", marca),
                             <<0>>, db[i].descuento_especial)>>
        ELSE << >>)
  \o (IF ~tieneDescuento(db[i].descuento_nacional)
         /\ ~tieneDescuento(db[i].descuento_especial)
        THEN <<convertirPlan(i, NombreOpcion(db[i].nombre, "", marca),
                             OrZero(db[i].descuento_nacional),
                             db[i].descuento_especial)>>
        ELSE << >>)

RECURSIVE planesExpandidos(_, _, _)
planesExpandidos(db, idx, marca) ==
  IF idx = << >> THEN << >>
  ELSE Expandir(db, Head(idx), marca) \o planesExpandidos(db, Tail(idx), marca)

planesDisponibles(db, f) ==
  IF Len(db) = 0 THEN << >>
  ELSE planesExpandidos(db, planesFiltrados(db, f), f.selectedMarca)

\* The radio buttons PlanSelector renders inside an expanded Plan section.
Opciones ==
  IF shouldShowPlans(sel) /\ ~loading THEN planesDisponibles(planesDB, sel)
  ELSE << >>

NoPlan == NombreOpcion("", "", "")

\* The props of a Plan section just entered, nothing chosen yet.
PlanProps(marca, segmento, tipoVenta) ==
  PlanEffect([selectedMarca |-> marca, selectedSegmento |-> segmento,
              selectedTipoVenta |-> tipoVenta,
              hasInternet |-> FALSE, hasTelevision |-> FALSE, hasTelefonia |-> FALSE,
              velocidadInternet |-> "", tipoTelevision |-> "",
              selectedPlan |-> NoPlan])

\* A change of the props: PlanSelector is unmounted while the plans are not
\* to be shown, and a mount starts with no rows and the fetch pending.
PropsChange(f) ==
  /\ f # sel
  /\ sel' = f
  /\ IF shouldShowPlans(f) /\ shouldShowPlans(sel)
       THEN UNCHANGED <<planesDB, loading>>
       ELSE planesDB' = << >> /\ loading' = TRUE

\* The three checkboxes, disabled under paquetizacion.
onServiceChange(k) ==
  /\ sel.selectedTipoVenta # "paquetizacion"
  /\ PropsChange([sel EXCEPT ![k] = ~@])

onVelocidadInternetChange(v) ==
  /\ sel.hasInternet /\ sel.selectedSegmento = "residencial"
  /\ PropsChange([sel EXCEPT !.velocidadInternet = v])

onTipoTelevisionChange(t) ==
  /\ sel.hasTelevision /\ sel.selectedSegmento = "residencial"
  /\ PropsChange([sel EXCEPT !.tipoTelevision = t])

\* fetchPlanes resolving: the rows of the brand and segment, or none.
fetchPlanes(rows) ==
  /\ shouldShowPlans(sel)
  /\ loading
  /\ planesDB' = IF sel.selectedSegmento = "" \/ sel.selectedMarca = "" THEN << >>
                 ELSE rows
  /\ loading' = FALSE
  /\ UNCHANGED sel

onPlanChange(i) ==
  /\ i \in DOMAIN Opciones
  /\ sel' = [sel EXCEPT !.selectedPlan = Opciones[i].nombre]
  /\ sel' # sel
  /\ UNCHANGED <<planesDB, loading>>

PlanIdle ==
  /\ sel = PlanProps("", "", "")
  /\ planesDB = << >>
  /\ loading = TRUE

-----------------------------------------------------------------------------
(* Part F: components/FileUpload, the otros-documentos uploader *)

\* Documents the list may hold while a batch is selected.
MaxDocs == 3

\* The type of each file a selection may hold: one or two images.
FileBatches ==
  {<<a>> : a \in {"image/png", "image/jpeg"}}
    \cup {<<a, b>> : a \in {"image/png", "image/jpeg"}, b \in {"image/png", "image/jpeg"}}

\* InformacionAdicional passes the rut of the form to FileUpload.
UploadRut == <<"1", ".", "2", "-", "k">>

IdleDocs ==
  [urls |-> << >>, uploading |-> FALSE, files |-> << >>, snapshot |-> << >>,
   i |-> 0, newUrls |-> << >>, lastOp |-> "none", removed |-> FALSE,
   clobbered |-> FALSE]

\* The body uploadFile posts for file i of the batch:
\* docNumber = uploadedUrls.length + i + 1, i counted from 0.
DocBody(d) ==
  [file |-> MkFile(TRUE, 1, 2), filename |-> "a.png", contentType |-> d.files[d.i],
   categoria |-> "otros-documentos", rut |-> UploadRut,
   docNumber |-> Len(d.snapshot) + (d.i - 1) + 1]

KeysOf(urls) == {urls[n] : n \in DOMAIN urls}

\* After the last file: onUploadComplete([...uploadedUrls, ...newUrls]) when a
\* file was stored, and setUploading(false) in any case.
LoopStep(d, newUrls) ==
  IF d.i < Len(d.files)
    THEN [d EXCEPT !.i = @ + 1, !.newUrls = newUrls]
  ELSE [d EXCEPT !.uploading = FALSE, !.files = << >>, !.snapshot = << >>, !.i = 0,
                 !.newUrls = << >>,
                 !.urls = IF newUrls # << >> THEN d.snapshot \o newUrls ELSE @]

\* The file input changes: the handler keeps the list of this render.
handleFileSelect(files) ==
  /\ ~docs.uploading
  /\ Len(docs.urls) + Len(files) <= MaxDocs
  /\ docs' = [docs EXCEPT !.uploading = TRUE, !.files = files, !.snapshot = docs.urls,
                          !.i = 1, !.newUrls = << >>, !.lastOp = "select"]
  /\ UNCHANGED bucket

\* uploadFile: the handler stores the file and answers with its URL.
uploadFileStored ==
  /\ docs.uploading
  /\ Rejection(DocBody(docs)) = ""
  /\ LET key == Key(DocBody(docs)) IN
       /\ bucket' =
            {o \in bucket : o.key # key}
              \cup {[key |-> key, size |-> DecodedLength(DocBody(docs).file),
                      contentType |-> DocBody(docs).contentType]}
       /\ docs' = [LoopStep(docs, Append(docs.newUrls, key)) EXCEPT
                     !.lastOp = "put",
                     !.clobbered = @ \/ key \in KeysOf(docs.urls)]

\* uploadFile: the request fails or is answered success: false; the URL is null.
uploadFileFailed ==
  /\ docs.uploading
  /\ docs' = [LoopStep(docs, docs.newUrls) EXCEPT !.lastOp = "fail"]
  /\ UNCHANGED bucket

\* The remove button of a listed document; it stays enabled during an upload.
handleRemove(index) ==
  /\ index \in DOMAIN docs.urls
  /\ docs' = [docs EXCEPT
                !.urls = SubSeq(@, 1, index - 1) \o SubSeq(@, index + 1, Len(@)),
                !.lastOp = "remove", !.removed = TRUE]
  /\ UNCHANGED bucket

DocsIdle == docs = IdleDocs

-----------------------------------------------------------------------------
(* Part G: the Confirmacion page *)

\* Submission requests one behaviour sends.
MaxRequests == 3

\* Confirmacion as mounted: its three pieces of state, then what the page has
\* done so far: requests in flight and sent, whether one succeeded, whether one
\* was started during another or after a success, and the last step.
IdleConf ==
  [isSubmitting |-> FALSE, submitSuccess |-> FALSE, submitError |-> FALSE,
   inFlight |-> 0, sent |-> 0, succeeded |-> FALSE, overlap |-> FALSE,
   last |-> "mount"]

\* The component is mounted anew; what was sent before stays sent.
ConfMount(c, step) ==
  [IdleConf EXCEPT !.inFlight = c.inFlight, !.sent = c.sent,
                   !.succeeded = c.succeeded, !.overlap = c.overlap, !.last = step]

\* A mutant of SendEnabled: the submit button always answers.
SendEnabledAlways(c) == TRUE

\* The submit button is rendered unless submitSuccess, and disabled while
\* isSubmitting.
SendEnabled(c) == ~c.submitSuccess /\ ~c.isSubmitting

\* The back button: rendered with the submit button, disabled with it.
BackEnabled(c) == ~c.submitSuccess /\ ~c.isSubmitting

\* The click on Enviar Formulario, up to the fetch.
handleEnviarFormulario ==
  /\ page = "confirmacion"
  /\ SendEnabled(conf)
  /\ conf.sent < MaxRequests
  /\ conf' = [conf EXCEPT !.isSubmitting = TRUE, !.submitError = FALSE,
                          !.inFlight = @ + 1, !.sent = @ + 1, !.last = "enviar",
                          !.overlap = @ \/ conf.inFlight > 0 \/ conf.succeeded]
  /\ UNCHANGED formVars

\* The response reports success: the saved form data is removed.
responseSuccess ==
  /\ conf.inFlight > 0
  /\ conf' = [conf EXCEPT !.submitSuccess = TRUE, !.isSubmitting = FALSE,
                          !.inFlight = @ - 1, !.succeeded = TRUE, !.last = "success"]
  /\ storage' = NoItem
  /\ UNCHANGED <<page, fields, collapsed, strictEffects, edits, lastEvent>>

\* The response reports success: false.
responseFailure ==
  /\ conf.inFlight > 0
  /\ conf' = [conf EXCEPT !.submitError = TRUE, !.isSubmitting = FALSE,
                          !.inFlight = @ - 1, !.last = "failure"]
  /\ UNCHANGED formVars

\* fetch or response.json() rejects: the catch block.
connectionError ==
  /\ conf.inFlight > 0
  /\ conf' = [conf EXCEPT !.submitError = TRUE, !.isSubmitting = FALSE,
                          !.inFlight = @ - 1, !.last = "error"]
  /\ UNCHANGED formVars

\* The back button: the form is mounted over what local storage holds.
handleRegresarConf ==
  /\ BackEnabled(conf)
  /\ handleRegresar
  /\ conf' = ConfMount(conf, "regresar")

\* The button of the success screen: the item is removed and the form mounted.
handleNuevoFormulario ==
  /\ page = "confirmacion"
  /\ conf.submitSuccess
  /\ fields' = Mount(NoItem, strictEffects).fields
  /\ storage' = Mount(NoItem, strictEffects).storage
  /\ collapsed' = InitialCollapsed
  /\ page' = "form"
  /\ lastEvent' = Event("nuevo", "", fields)
  /\ conf' = ConfMount(conf, "nuevo")
  /\ UNCHANGED <<strictEffects, edits>>

\* Forms the confirmation page may have been reached with.
ConfirmedForms ==
  {InfoAdicionalDone,
   [InfoAdicionalDone EXCEPT !.selectedSegmento = "negocio", !.nombreEmpresa = "x",
                             !.rutEmpresa = "x"],
   [InfoAdicionalDone EXCEPT !.hasTelevision = TRUE, !.tipoTelevision = "Plus"]}

ConfIdle == conf = IdleConf

-----------------------------------------------------------------------------
(* Part H: components/FechaAgendamientoSelector *)

\* Days are numbered; a day whose number is a multiple of 7 is a Sunday.
\* The first year ends with day 14.
FirstYear == 1..14

YearOf(d) == IF d \in FirstYear THEN 1 ELSE 2

\* for (let offset = 1; offset <= 10; offset++)
DaysAhead == 10

\* Today: early in the first year, or less than ten days before its end.
Todays == {2, 9}

\* Dates the feriados table may hold: two of the first year, one of the next.
HolidayDates == {4, 10, 16}

IdleCal ==
  [hoy |-> 0, east |-> FALSE, tabla |-> {}, feriadosDB |-> {}, loading |-> TRUE,
   value |-> 0, clicked |-> 0]

\* fecha.toISOString().split('T')[0] for a local midnight: the UTC date, which
\* is the day before in a time zone east of Greenwich.
fechaStr(fecha, east) == IF east THEN fecha - 1 ELSE fecha

\* getFeriados(): the rows of feriados_active dated within the current year.
getFeriados(hoy, tabla) == {f \in tabla : YearOf(f) = YearOf(hoy)}

\* One entry of diasCalendario.
DiaCalendario(c, offset) ==
  LET fecha == c.hoy + offset
      esDomingo == fecha % 7 = 0
      esFeriado == fechaStr(fecha, c.east) \in c.feriadosDB
  IN [fechaStr |-> fechaStr(fecha, c.east), esDomingo |-> esDomingo,
      esFeriado |-> esFeriado, esHabil |-> ~esDomingo /\ ~esFeriado]

\* The fetch of the mount effect ends: with the rows, or with an error.
fetchFeriados(ok) ==
  /\ cal.loading
  /\ cal' = [cal EXCEPT
               !.feriadosDB = IF ok THEN getFeriados(cal.hoy, cal.tabla) ELSE {},
               !.loading = FALSE]

\* A click on a day of the grid, which is rendered once loading is over.
handleDiaClick(offset) ==
  /\ ~cal.loading
  /\ LET dia == DiaCalendario(cal, offset) IN
       cal' = [cal EXCEPT !.value = IF dia.esHabil THEN dia.fechaStr ELSE @,
                          !.clicked = offset]

CalIdle == cal = IdleCal

-----------------------------------------------------------------------------
(* Part I: components/ProductosAdicionales *)

\* The display names of the products offered with Internet and Television:
\* a decoder, two extenders of which one name begins with the other, a channel.
Productos == {"D-Box Smart Hd", "Extensor", "Extensor Plus", "Hbo"}

\* An entry of selectedAdicionales: `${nombre} (${n})`, or the bare name
\* when n is 0.
Item(nombre, n) == [nombre |-> nombre, n |-> n]

IdleAdic == [selected |-> << >>, cantidades |-> [p \in Productos |-> 0], last |-> "none"]

\* itemNombre.toLowerCase().includes("d-box") || ...includes("extensor")
requiereCantidad(nombre) == nombre \in {"D-Box Smart Hd", "Extensor", "Extensor Plus"}

\* item.startsWith(itemNombre): the name is a prefix of the item's text.
StartsWith(item, nombre) ==
  \/ item.nombre = nombre
  \/ nombre = "Extensor" /\ item.nombre = "Extensor Plus"

\* item.replace(/\s*\(\d+\)$/, '')
nombreSinCantidad(item) == item.nombre

isChecked(selected, nombre) == \E n \in DOMAIN selected : StartsWith(selected[n], nombre)

\* cantidades[item.nombre] || 1
Cantidad(cantidades, nombre) == IF cantidades[nombre] # 0 THEN cantidades[nombre] ELSE 1

\* The effect on [selectedAdicionales]: the quantities are rebuilt from the
\* entries, the number of an entry first, then the quantity held, then 1.
nuevasCantidades(selected, cantidades) ==
  [p \in Productos |->
     IF requiereCantidad(p) /\ \E n \in DOMAIN selected : nombreSinCantidad(selected[n]) = p
       THEN LET item == selected[CHOOSE n \in DOMAIN selected :
                                   /\ nombreSinCantidad(selected[n]) = p
                                   /\ \A k \in DOMAIN selected :
                                        nombreSinCantidad(selected[k]) = p => k <= n]
            IN IF item.n # 0 THEN item.n ELSE Cantidad(cantidades, p)
     ELSE 0]

\* The handlers call onAdicionalesChange and the effect follows.
AdicionalesChange(selected, cantidades, op) ==
  adic' = [selected |-> selected,
           cantidades |-> nuevasCantidades(selected, cantidades),
           last |-> op]

RECURSIVE SinPrefijo(_, _)
\* selectedAdicionales.filter((item) => !item.startsWith(itemNombre))
SinPrefijo(selected, nombre) ==
  IF selected = << >> THEN << >>
  ELSE IF StartsWith(Head(selected), nombre) THEN SinPrefijo(Tail(selected), nombre)
  ELSE <<Head(selected)>> \o SinPrefijo(Tail(selected), nombre)

\* The checkbox of a product changes to `checked`.
handleCheckboxChange(nombre, checked) ==
  /\ checked = ~isChecked(adic.selected, nombre)
  /\ IF checked
       THEN AdicionalesChange(
              Append(adic.selected, Item(nombre, IF requiereCantidad(nombre) THEN 1 ELSE 0)),
              IF requiereCantidad(nombre)
                THEN [adic.cantidades EXCEPT ![nombre] = 1] ELSE adic.cantidades,
              "check")
       ELSE AdicionalesChange(
              SinPrefijo(adic.selected, nombre),
              IF requiereCantidad(nombre)
                THEN [adic.cantidades EXCEPT ![nombre] = 0] ELSE adic.cantidades,
              "uncheck")

\* A mutant of Incrementada: the quantity is not capped.
IncrementadaSinTope(cantidad) == cantidad + 1

\* Math.min(cantidad + 1, 3)
Incrementada(cantidad) == IF cantidad + 1 < 3 THEN cantidad + 1 ELSE 3

\* Math.max(cantidad - 1, 1)
Decrementada(cantidad) == IF cantidad - 1 > 1 THEN cantidad - 1 ELSE 1

\* selectedAdicionales.map(...): the entry of the product gets the new number.
ConCantidad(selected, nombre, nueva) ==
  [n \in DOMAIN selected |->
     IF nombreSinCantidad(selected[n]) = nombre THEN Item(nombre, nueva) ELSE selected[n]]

\* The + button, rendered for a checked product with a counter and disabled
\* from 3 on.
incrementarCantidad(nombre) ==
  /\ isChecked(adic.selected, nombre) /\ requiereCantidad(nombre)
  /\ ~(Cantidad(adic.cantidades, nombre) >= 3)
  /\ LET nueva == Incrementada(Cantidad(adic.cantidades, nombre)) IN
       AdicionalesChange(ConCantidad(adic.selected, nombre, nueva),
                         [adic.cantidades EXCEPT ![nombre] = nueva], "incrementar")

\* The - button, disabled at 1.
decrementarCantidad(nombre) ==
  /\ isChecked(adic.selected, nombre) /\ requiereCantidad(nombre)
  /\ ~(Cantidad(adic.cantidades, nombre) <= 1)
  /\ LET nueva == Decrementada(Cantidad(adic.cantidades, nombre)) IN
       AdicionalesChange(ConCantidad(adic.selected, nombre, nueva),
                         [adic.cantidades EXCEPT ![nombre] = nueva], "decrementar")

AdicIdle == adic = IdleAdic

ClientIdle == DocsIdle /\ ConfIdle /\ CalIdle /\ AdicIdle

-----------------------------------------------------------------------------
(* Specifications *)

InitForm ==
  /\ cfg = [slots |-> {}, inputs |-> "none"]
  /\ vendedores = {}
  /\ codigos = {}
  /\ SubmitIdle
  /\ ClientIdle
  /\ UploadIdle
  /\ PlanIdle
  /\ UtilIdle
  /\ strictEffects \in BOOLEAN
  /\ \E st \in StoredBefore :
       /\ fields = Mount(st, strictEffects).fields
       /\ storage = Mount(st, strictEffects).storage
  /\ page = "form"
  /\ collapsed = InitialCollapsed
  /\ edits = 0
  /\ lastEvent = Event("mount", "", NoBefore)

NextForm ==
  \/ \E k \in PlainKeys : \E v \in FieldInputs(k, fields) :
       SetField(k, v) /\ UNCHANGED <<submitVars, uploadVars, planVars, utilVars, clientVars>>
  \/ \E v \in {" ", "x"}, tc \in {NoContract, "Contratado"} :
       handleVendedorChange(v, tc) /\ UNCHANGED <<submitVars, uploadVars, planVars, utilVars, clientVars>>
  \/ \E r \in Regions \cup {""}, loaded \in BOOLEAN :
       onRegionChange(r, loaded) /\ UNCHANGED <<submitVars, uploadVars, planVars, utilVars, clientVars>>
  \/ \E d \in {"d1", "d2"}, offered \in BOOLEAN :
       onFechaChange(d, offered) /\ UNCHANGED <<submitVars, uploadVars, planVars, utilVars, clientVars>>
  \/ \E s \in SectionSet, loaded \in BOOLEAN :
       onToggle(s, loaded) /\ UNCHANGED <<submitVars, uploadVars, planVars, utilVars, clientVars>>
  \/ handleContinueGeneral /\ UNCHANGED <<submitVars, uploadVars, planVars, utilVars, clientVars>>
  \/ handleContinueSolicitante /\ UNCHANGED <<submitVars, uploadVars, planVars, utilVars, clientVars>>
  \/ handleContinueDireccion /\ UNCHANGED <<submitVars, uploadVars, planVars, utilVars, clientVars>>
  \/ handleContinuePlan /\ UNCHANGED <<submitVars, uploadVars, planVars, utilVars, clientVars>>
  \/ handleContinueAdicionales /\ UNCHANGED <<submitVars, uploadVars, planVars, utilVars, clientVars>>
  \/ handleFinalizar /\ UNCHANGED <<submitVars, uploadVars, planVars, utilVars, clientVars>>
  \/ Reload /\ UNCHANGED <<submitVars, uploadVars, planVars, utilVars, clientVars>>
  \/ handleRegresar /\ UNCHANGED <<submitVars, uploadVars, planVars, utilVars, clientVars>>

\* The form under field edits, header and Continue clicks, and reloads.
SpecForm == InitForm /\ [][NextForm]_vars

\* Invocations that overlap, each with one of two complete orders.
InitSubmit ==
  /\ cfg = [slots |-> H, inputs |-> "orders"]
  /\ vendedores = CHOOSE t \in VendedoresTables : Cardinality(t) = 3
  /\ codigos \in CodigosTables
  /\ SubmitIdle
  /\ ClientIdle
  /\ UploadIdle
  /\ PlanIdle
  /\ UtilIdle
  /\ FormIdle

\* One invocation, over every body of the input sets.
InitRequest ==
  /\ cfg = [slots |-> {1}, inputs |-> "bodies"]
  /\ vendedores \in VendedoresTables
  /\ codigos \in CodigosTables
  /\ SubmitIdle
  /\ ClientIdle
  /\ UploadIdle
  /\ PlanIdle
  /\ UtilIdle
  /\ FormIdle

NextSubmit ==
  \/ \E h \in cfg.slots :
       /\ inv[h].pc = "idle"
       /\ \E m \in Methods, t \in TestModes, fd \in Payloads : Receive(h, m, t, fd)
       /\ UNCHANGED <<uploadVars, formVars, planVars, utilVars, clientVars>>
  \/ \E h \in cfg.slots : GetValues(h) /\ UNCHANGED <<uploadVars, formVars, planVars, utilVars, clientVars>>
  \/ \E h \in cfg.slots : GetMetadata(h) /\ UNCHANGED <<uploadVars, formVars, planVars, utilVars, clientVars>>
  \/ \E h \in cfg.slots : AppendDimension(h) /\ UNCHANGED <<uploadVars, formVars, planVars, utilVars, clientVars>>
  \/ \E h \in cfg.slots : BatchUpdate(h) /\ UNCHANGED <<uploadVars, formVars, planVars, utilVars, clientVars>>
  \/ \E h \in cfg.slots : SheetsError(h) /\ UNCHANGED <<uploadVars, formVars, planVars, utilVars, clientVars>>
  \/ \E h \in cfg.slots : CheckVendedor(h) /\ UNCHANGED <<uploadVars, formVars, planVars, utilVars, clientVars>>
  \/ \E h \in cfg.slots : CheckCodigo(h) /\ UNCHANGED <<uploadVars, formVars, planVars, utilVars, clientVars>>
  \/ \E h \in cfg.slots : InsertPedido(h) /\ UNCHANGED <<uploadVars, formVars, planVars, utilVars, clientVars>>
  \/ \E h \in cfg.slots : InsertError(h) /\ UNCHANGED <<uploadVars, formVars, planVars, utilVars, clientVars>>

\* Overlapping invocations of the submission handler.
SpecSubmit == InitSubmit /\ [][NextSubmit]_vars

\* One invocation of the submission handler over every body.
SpecRequest == InitRequest /\ [][NextSubmit]_vars

InitUpload ==
  /\ cfg = [slots |-> {}, inputs |-> "none"]
  /\ vendedores = {}
  /\ codigos = {}
  /\ SubmitIdle
  /\ ClientIdle
  /\ UploadIdle
  /\ PlanIdle
  /\ UtilIdle
  /\ FormIdle

NextUpload ==
  \/ /\ upl.pc \in {"idle", "done"}
     /\ uploads < MaxUploads
     /\ \E b \in UploadBodies : UploadReceive("POST", b)
     /\ UNCHANGED <<submitVars, formVars, planVars, utilVars, clientVars>>
  \/ /\ upl.pc \in {"idle", "done"}
     /\ uploads < MaxUploads
     /\ \E m \in UploadMethods \ {"POST"} : UploadReceive(m, NoBody)
     /\ UNCHANGED <<submitVars, formVars, planVars, utilVars, clientVars>>
  \/ UploadSend /\ UNCHANGED <<submitVars, formVars, planVars, utilVars, clientVars>>
  \/ UploadSendError /\ UNCHANGED <<submitVars, formVars, planVars, utilVars, clientVars>>

\* Upload requests handled one after the other.
SpecUpload == InitUpload /\ [][NextUpload]_vars

InitPlan ==
  /\ cfg = [slots |-> {}, inputs |-> "none"]
  /\ vendedores = {}
  /\ codigos = {}
  /\ SubmitIdle
  /\ ClientIdle
  /\ UploadIdle
  /\ FormIdle
  /\ UtilIdle
  /\ \E segmento \in {"residencial", "negocio"}, tipoVenta \in {"nueva", "paquetizacion"} :
       sel = PlanProps("vtr", segmento, tipoVenta)
  /\ planesDB = << >>
  /\ loading = TRUE

NextPlan ==
  \/ \E k \in BoolKeys :
       onServiceChange(k) /\ UNCHANGED <<submitVars, uploadVars, formVars, utilVars, clientVars>>
  \/ \E v \in Velocidades :
       onVelocidadInternetChange(v)
         /\ UNCHANGED <<submitVars, uploadVars, formVars, utilVars, clientVars>>
  \/ \E t \in TiposTv :
       onTipoTelevisionChange(t)
         /\ UNCHANGED <<submitVars, uploadVars, formVars, utilVars, clientVars>>
  \/ \E rows \in PlanTables :
       fetchPlanes(rows) /\ UNCHANGED <<submitVars, uploadVars, formVars, utilVars, clientVars>>
  \/ \E i \in DOMAIN Opciones :
       onPlanChange(i) /\ UNCHANGED <<submitVars, uploadVars, formVars, utilVars, clientVars>>

\* The Plan section with its plan selector, over every fetch result.
SpecPlan == InitPlan /\ [][NextPlan]_vars


InitUtil ==
  /\ cfg = [slots |-> {}, inputs |-> "none"]
  /\ vendedores = {}
  /\ codigos = {}
  /\ SubmitIdle
  /\ ClientIdle
  /\ UploadIdle
  /\ FormIdle
  /\ PlanIdle
  /\ text \in TextInputs
  /\ applied = NoneApplied

NextUtil ==
  \/ Format("formatRut", formatRut(text))
       /\ UNCHANGED <<submitVars, uploadVars, formVars, planVars, clientVars>>
  \/ Format("formatPhone", formatPhone(text))
       /\ UNCHANGED <<submitVars, uploadVars, formVars, planVars, clientVars>>
  \/ Format("formatAddress", formatAddress(text))
       /\ UNCHANGED <<submitVars, uploadVars, formVars, planVars, clientVars>>
  \/ Validate("validateRut", validateRut(text))
       /\ UNCHANGED <<submitVars, uploadVars, formVars, planVars, clientVars>>
  \/ Validate("validatePhone", validatePhone(text))
       /\ UNCHANGED <<submitVars, uploadVars, formVars, planVars, clientVars>>
  \/ Validate("validateAddress", validateAddress(text))
       /\ UNCHANGED <<submitVars, uploadVars, formVars, planVars, clientVars>>

\* The formatters and validators applied, in any order, to one input.
SpecUtil == InitUtil /\ [][NextUtil]_vars


InitDocs ==
  /\ cfg = [slots |-> {}, inputs |-> "none"]
  /\ vendedores = {}
  /\ codigos = {}
  /\ SubmitIdle
  /\ UploadIdle
  /\ FormIdle
  /\ PlanIdle
  /\ UtilIdle
  /\ ClientIdle

NextDocs ==
  \/ \E files \in FileBatches :
       handleFileSelect(files)
         /\ UNCHANGED <<submitVars, upl, uploads, formVars, planVars, utilVars, conf, cal, adic>>
  \/ uploadFileStored
       /\ UNCHANGED <<submitVars, upl, uploads, formVars, planVars, utilVars, conf, cal, adic>>
  \/ uploadFileFailed
       /\ UNCHANGED <<submitVars, upl, uploads, formVars, planVars, utilVars, conf, cal, adic>>
  \/ \E index \in 1..MaxDocs :
       handleRemove(index)
         /\ UNCHANGED <<submitVars, upl, uploads, formVars, planVars, utilVars, conf, cal, adic>>

\* The otros-documentos uploader under selections, uploads and removals.
SpecDocs == InitDocs /\ [][NextDocs]_vars


InitConfirm ==
  /\ cfg = [slots |-> {}, inputs |-> "none"]
  /\ vendedores = {}
  /\ codigos = {}
  /\ SubmitIdle
  /\ UploadIdle
  /\ PlanIdle
  /\ UtilIdle
  /\ ClientIdle
  /\ strictEffects \in BOOLEAN
  /\ fields \in ConfirmedForms
  /\ storage = SaveEffect(fields)
  /\ page = "confirmacion"
  /\ collapsed = [s \in SectionSet |-> s # "infoAdicional"]
  /\ edits = 0
  /\ lastEvent = Event("finalizar", "infoAdicional", NoBefore)

NextConfirm ==
  \/ handleEnviarFormulario
       /\ UNCHANGED <<submitVars, uploadVars, planVars, utilVars, docs, cal, adic>>
  \/ responseSuccess
       /\ UNCHANGED <<submitVars, uploadVars, planVars, utilVars, docs, cal, adic>>
  \/ responseFailure
       /\ UNCHANGED <<submitVars, uploadVars, planVars, utilVars, docs, cal, adic>>
  \/ connectionError
       /\ UNCHANGED <<submitVars, uploadVars, planVars, utilVars, docs, cal, adic>>
  \/ handleRegresarConf
       /\ UNCHANGED <<submitVars, uploadVars, planVars, utilVars, docs, cal, adic>>
  \/ handleNuevoFormulario
       /\ UNCHANGED <<submitVars, uploadVars, planVars, utilVars, docs, cal, adic>>
  \/ \E s \in SectionSet, loaded \in BOOLEAN :
       onToggle(s, loaded) /\ conf' = conf
         /\ UNCHANGED <<submitVars, uploadVars, planVars, utilVars, docs, cal, adic>>
  \/ handleFinalizar /\ conf' = ConfMount(conf, "mount")
       /\ UNCHANGED <<submitVars, uploadVars, planVars, utilVars, docs, cal, adic>>

\* The confirmation page: submissions, their answers, and the ways back.
SpecConfirm == InitConfirm /\ [][NextConfirm]_vars


InitCal ==
  /\ cfg = [slots |-> {}, inputs |-> "none"]
  /\ vendedores = {}
  /\ codigos = {}
  /\ SubmitIdle
  /\ UploadIdle
  /\ FormIdle
  /\ PlanIdle
  /\ UtilIdle
  /\ DocsIdle
  /\ ConfIdle
  /\ AdicIdle
  /\ \E hoy \in Todays, east \in BOOLEAN, tabla \in SUBSET HolidayDates :
       cal = [IdleCal EXCEPT !.hoy = hoy, !.east = east, !.tabla = tabla]

NextCal ==
  \/ \E ok \in BOOLEAN :
       fetchFeriados(ok)
         /\ UNCHANGED <<submitVars, uploadVars, formVars, planVars, utilVars, docs, conf, adic>>
  \/ \E offset \in 1..DaysAhead :
       handleDiaClick(offset)
         /\ UNCHANGED <<submitVars, uploadVars, formVars, planVars, utilVars, docs, conf, adic>>

\* The date selector over every holidays table, today and time zone.
SpecCal == InitCal /\ [][NextCal]_vars


InitAdic ==
  /\ cfg = [slots |-> {}, inputs |-> "none"]
  /\ vendedores = {}
  /\ codigos = {}
  /\ SubmitIdle
  /\ UploadIdle
  /\ FormIdle
  /\ PlanIdle
  /\ UtilIdle
  /\ ClientIdle

NextAdic ==
  \/ \E nombre \in Productos, checked \in BOOLEAN :
       handleCheckboxChange(nombre, checked)
         /\ UNCHANGED <<submitVars, uploadVars, formVars, planVars, utilVars, docs, conf, cal>>
  \/ \E nombre \in Productos :
       incrementarCantidad(nombre)
         /\ UNCHANGED <<submitVars, uploadVars, formVars, planVars, utilVars, docs, conf, cal>>
  \/ \E nombre \in Productos :
       decrementarCantidad(nombre)
         /\ UNCHANGED <<submitVars, uploadVars, formVars, planVars, utilVars, docs, conf, cal>>

\* The additional products under checks, unchecks and the quantity buttons.
SpecAdic == InitAdic /\ [][NextAdic]_vars

-----------------------------------------------------------------------------
(* Claims *)

Ops(h, op) == {i \in DOMAIN log[h] : log[h][i].op = op}

\* The invocation has answered 200 in the mode given.
Answered(h, mode) ==
  /\ inv[h].pc = "done"
  /\ inv[h].method = "POST"
  /\ inv[h].test = mode
  /\ inv[h].resp.status = 200

\* Both writes of a normal-mode invocation succeeded.
BothWritesSucceeded(h) == Answered(h, "normal") /\ inv[h].resp.pedidoId # 0

\* The spreadsheet rows that hold the data of the order invocation h submitted.
RowsHolding(h) ==
  {r \in DOMAIN sheet : sheet[r].kind = "order" /\ sheet[r].by = h}

\* C1: after a normal-mode POST whose two writes succeeded, the handler has
\* written one spreadsheet row (at nextRow) and inserted one pedidos row, and
\* that row's fila_sheets is the number of the spreadsheet row holding the
\* data of this order.
C1_OneRowEachSameFila ==
  \A h \in cfg.slots :
    BothWritesSucceeded(h) =>
      /\ Cardinality(Ops(h, "batchUpdate")) = 1
      /\ \A i \in Ops(h, "batchUpdate") : log[h][i].row = inv[h].nextRow
      /\ Cardinality(Ops(h, "insert")) = 1
      /\ Cardinality({p \in pedidos : p.by = h}) = 1
      /\ \A p \in pedidos : p.by = h => RowsHolding(h) = {p.fila_sheets}

\* Two overlapping normal-mode invocations have both answered success.
C1_TwoOrdersAnswered ==
  \A h \in H : h \in cfg.slots /\ BothWritesSucceeded(h)

\* The flag the validation echo should carry for a field: present and non-empty.
PresentNonEmpty(v) == v # Absent /\ v # EmptyStr

C5_OnlyTheNamedBackend ==
  \A h \in cfg.slots :
    /\ Answered(h, "supabase") =>
         /\ Ops(h, "appendDimension") = {}
         /\ Ops(h, "batchUpdate") = {}
         /\ sheet = InitSheet
    /\ Answered(h, "sheets") =>
         /\ Ops(h, "insert") = {}
         /\ pedidos = {}

\* A ?test=supabase request has inserted its pedidos row and answered.
C5_SupabaseModeAnswered ==
  \E h \in cfg.slots :
    /\ Answered(h, "supabase")
    /\ inv[h].resp.pedidoId # 0
    /\ \E p \in pedidos : p.by = h

\* C6: in normal mode, when the spreadsheet write succeeded and the insert
\* into pedidos returns an error, the handler still answers 200 with
\* success true and no pedidoId, and the spreadsheet row stays as written.
C6_InsertErrorStillSuccess ==
  [][\A h \in cfg.slots :
       (inv[h].pc = "insert" /\ inv[h].test = "normal"
          /\ inv'[h].pc = "done" /\ pedidos' = pedidos) =>
         /\ inv'[h].resp.status = 200
         /\ inv'[h].resp.success
         /\ inv'[h].resp.pedidoId = 0
         /\ sheet' = sheet
         /\ sheet'[inv[h].nextRow].kind = "order"
         /\ sheet'[inv[h].nextRow].formData = inv[h].formData]_vars

\* A normal-mode request answered after its row was written and no pedidos row
\* was inserted.
C6_AnsweredWithoutPedido ==
  \E h \in cfg.slots :
    /\ inv[h].pc = "done"
    /\ inv[h].test = "normal"
    /\ Ops(h, "batchUpdate") # {}
    /\ Ops(h, "insert") = {}
    /\ inv[h].resp.mode = "normal"
    /\ pedidos = {}
    /\ RowsHolding(h) = {inv[h].nextRow}

\* Equality of two names up to letter case.
RECURSIVE SameIgnoringCase(_, _)
SameIgnoringCase(a, b) ==
  IF a = << >> \/ b = << >> THEN a = b
  ELSE LowerChar(Head(a)) = LowerChar(Head(b)) /\ SameIgnoringCase(Tail(a), Tail(b))

\* The submitted seller name is the name of a row of vendedores.
VendedorExists(name) ==
  name # Absent /\ \E v \in vendedores : SameIgnoringCase(v.nombre, name)

\* The submitted seller code is the code of a row of codigos_vendedor.
CodigoExists(code) ==
  code # Absent /\ \E c \in codigos : SameIgnoringCase(c.codigo, code)

\* C9: in every inserted pedidos row the seller name is stored if and only if
\* the submitted name exists in vendedores and is null otherwise, and the
\* seller code is stored if and only if the submitted code exists in
\* codigos_vendedor and is null otherwise.
C9_StoredIffExists ==
  \A p \in pedidos :
    /\ p.vendedor_id =
         IF VendedorExists(p.formData.selectedVendedor)
         THEN p.formData.selectedVendedor ELSE Null
    /\ p.codigo_vendedor =
         IF CodigoExists(p.formData.selectedCodigo)
         THEN p.formData.selectedCodigo ELSE Null

\* A pedidos row was inserted for a seller name that vendedores holds twice.
C9_InsertedForRepeatedName ==
  \E p \in pedidos :
    Cardinality({v \in vendedores :
                   SameIgnoringCase(v.nombre, p.formData.selectedVendedor)}) = 2

\* C10: when the same payload is submitted twice and both invocations succeed,
\* the spreadsheet holds a second row and pedidos a second row for it.
C10_SecondSubmissionDuplicates ==
  \A g \in cfg.slots, h \in cfg.slots :
    (g # h /\ BothWritesSucceeded(g) /\ BothWritesSucceeded(h)
       /\ inv[g].formData = inv[h].formData) =>
      /\ Cardinality({p \in pedidos : p.formData = inv[h].formData}) >= 2
      /\ Cardinality({r \in DOMAIN sheet :
                        sheet[r].kind = "order"
                          /\ sheet[r].formData = inv[h].formData}) >= 2

\* The same payload was submitted twice and both invocations answered success.
C10_SamePayloadTwice ==
  \E g \in cfg.slots, h \in cfg.slots :
    /\ g # h
    /\ BothWritesSucceeded(g)
    /\ BothWritesSucceeded(h)
    /\ inv[g].formData = inv[h].formData

\* The content types the upload endpoint is to accept.
AllowList == {"image/jpeg", "image/jpg", "image/png", "image/webp", "application/pdf"}

\* C8: an upload request puts an object only if its content type is in the
\* allow-list and the decoded payload is at most 10 MB; a request failing
\* either check is answered 400 with a message and stores nothing.
C8_StoredOnlyIfAllowedAndSmall ==
  (upl.pc = "done" /\ upl.method = "POST") =>
    LET allowed == upl.body.contentType \in AllowList
        small == DecodedLength(upl.body.file) <= 10485760
    IN /\ upl.puts > 0 => allowed /\ small
       /\ ~(allowed /\ small) =>
            /\ upl.resp.status = 400
            /\ upl.resp.message # ""
            /\ upl.puts = 0

\* A 15 MB JPEG was answered 400 with the size message and not stored.
C8_LargeJpegRejected ==
  /\ upl.pc = "done"
  /\ upl.body.contentType = "image/jpeg"
  /\ DecodedLength(upl.body.file) = 15728640
  /\ upl.resp.status = 400
  /\ upl.resp.message = "tamano"
  /\ bucket = {}

\* The validation predicate of each section; Productos Adicionales has none.
PredicateOf(s) ==
  CASE s = "general" -> canContinueGeneral(fields)
    [] s = "solicitante" -> canContinueSolicitante(fields)
    [] s = "direccion" -> canContinueDireccion(fields)
    [] s = "plan" -> canContinuePlan(fields)
    [] s = "adicionales" -> TRUE
    [] s = "infoAdicional" -> canContinueInfoAdicional(fields)

\* The Continue button of a section is rendered and not disabled.
ContinueEnabled(s) == page = "form" /\ ~collapsed[s] /\ CanContinue(s, fields)

\* C2: a section other than General becomes expanded, through the Continue
\* button of its predecessor or a click on its own header, only if the
\* predicate of its predecessor is true at that moment; and the Continue
\* button of a section is enabled only while the section's own predicate is
\* true.
C2_EnteredOnlyPastValidPredecessor ==
  /\ [](\A s \in SectionSet : ContinueEnabled(s) => PredicateOf(s))
  /\ [][\A i \in 2..Len(Sections) :
          (collapsed[Sections[i]] /\ ~collapsed'[Sections[i]]) =>
            PredicateOf(Sections[i - 1])]_vars

\* Plan was expanded by a click on its header after a field edit.
C2_PlanOpenedByHeader ==
  /\ lastEvent.kind = "toggle"
  /\ lastEvent.section = "plan"
  /\ ~collapsed["plan"]
  /\ edits > 0
  /\ canContinueDireccion(fields)
  /\ ~canContinuePlan(fields)

Expanded == {s \in SectionSet : ~collapsed[s]}

\* C3: at most one of the six sections is expanded.
C3_AtMostOneExpanded == Cardinality(Expanded) <= 1

\* Continue moved from Plan to Productos Adicionales, the only section open.
C3_ContinuedToAdicionales ==
  /\ lastEvent.kind = "continue"
  /\ lastEvent.section = "plan"
  /\ Expanded = {"adicionales"}

\* C7: once the form has settled after a reload, every field holds the value
\* it had before the reload, and local storage holds those same values.
C7_ReloadRestoresFields ==
  lastEvent.kind = "reload" =>
    /\ fields = lastEvent.before
    /\ storage.saved
    /\ storage.data = lastEvent.before

\* The form was reloaded after an edit had filled a field.
C7_ReloadedAfterEdit ==
  /\ lastEvent.kind = "reload"
  /\ edits > 0
  /\ lastEvent.before # DefaultFields

\* The plan options are on screen: the section shows them and the fetch is over.
OptionsShown == shouldShowPlans(sel) /\ ~loading

\* A radio label and the enum value that stands for it in the planes table.
LabelOf(label, column) ==
  <<label, column>> \in {<<"500MB", "500mb">>, <<"600MB", "600mb">>,
                         <<"Plus", "plus">>, <<"Premium", "premium">>}

InternetAndTvOnly ==
  /\ sel.selectedSegmento = "residencial"
  /\ sel.hasInternet /\ sel.hasTelevision /\ ~sel.hasTelefonia

\* C11: for the residencial segment with Internet and Television selected and
\* Telephony not, every option offered comes from a row of category 2_rgu
\* whose internet and television flags are true, whose telephony flag is
\* false and whose speed and tier are the ones selected; no other row yields
\* an option.
C11_OnlyMatchingRowsOffered ==
  InternetAndTvOnly =>
    \A i \in DOMAIN Opciones :
      LET r == planesDB[Opciones[i].fila]
      IN /\ r.categoria = "2_rgu"
         /\ r.internet_activo = "true"
         /\ r.television_activa = "true"
         /\ r.telefonia_activa = "false"
         /\ LabelOf(sel.velocidadInternet, r.internet_velocidad)
         /\ LabelOf(sel.tipoTelevision, r.television_plan)

\* Internet 500MB and TV Plus over the fetch of six rows: options are offered
\* and rows that miss one condition are left out.
C11_MixedFetchFiltered ==
  /\ InternetAndTvOnly
  /\ OptionsShown
  /\ planesDB = MixedTable
  /\ Opciones # << >>
  /\ {Opciones[i].fila : i \in DOMAIN Opciones} # DOMAIN planesDB

\* The options that come from row i of the fetch.
OptionsOf(i) == {j \in DOMAIN Opciones : Opciones[j].fila = i}

Carries(d) == d # NullInt /\ d[1] > 0

\* C16: every row that passes the filter yields at least one option: two, one
\* per discount, when it carries a national and a special discount, and one
\* when it carries at most one.
C16_OptionsPerRow ==
  OptionsShown =>
    \A k \in DOMAIN planesFiltrados(planesDB, sel) :
      LET i == planesFiltrados(planesDB, sel)[k]
          both == Carries(planesDB[i].descuento_nacional)
                    /\ Carries(planesDB[i].descuento_especial)
      IN /\ Cardinality(OptionsOf(i)) >= 1
         /\ both => /\ Cardinality(OptionsOf(i)) = 2
                    /\ {Opciones[j].nombre.descuento : j \in OptionsOf(i)}
                         = {"Nacional", "Especial"}
         /\ ~both => Cardinality(OptionsOf(i)) = 1

\* A fetch in which one filtered row carries both discounts and another one.
C16_BothDiscountsExpanded ==
  /\ OptionsShown
  /\ planesDB = MixedTable
  /\ Len(planesFiltrados(planesDB, sel)) = 2
  /\ Len(Opciones) = 3

\* The service flags of a body that are true.
FlagsOn(fd) == {k \in {"hasInternet", "hasTelevision", "hasTelefonia"} : fd[k]}

\* C12: the RGU written to the spreadsheet row and to the pedidos row of an
\* order is the number of its service flags that are true, and the flags
\* stored in the pedidos row are the flags of the order.
C12_RguCountsFlags ==
  /\ \A r \in DOMAIN sheet :
       sheet[r].kind = "order" => sheet[r].rgu = Cardinality(FlagsOn(sheet[r].formData))
  /\ \A p \in pedidos :
       /\ p.rgu = Cardinality(FlagsOn(p.formData))
       /\ p.tiene_internet = p.formData.hasInternet
       /\ p.tiene_television = p.formData.hasTelevision
       /\ p.tiene_telefonia = p.formData.hasTelefonia

\* An order with Internet and Telephony but no Television, written to both.
C12_TwoServicesWritten ==
  \E p \in pedidos :
    /\ FlagsOn(p.formData) = {"hasInternet", "hasTelefonia"}
    /\ p.fila_sheets \in DOMAIN sheet
    /\ sheet[p.fila_sheets].kind = "order"
    /\ sheet[p.fila_sheets].formData = p.formData

\* The upload request passed every validation and reached the put.
Accepted == upl.method = "POST" /\ upl.pc \in {"send", "done"} /\ upl.key # NoKey

WithoutDotsAndHyphen(rut) == SelectSeq(rut, LAMBDA c : c \notin {".", "-"})

Following(s) ==
  Sections[(CHOOSE i \in DOMAIN Sections : Sections[i] = s) + 1]

\* C14: once the Continue button of General, Solicitante, Direccion, Plan or
\* Adicionales has been activated, the section after it is expanded and every
\* other section is collapsed.
C14_ContinueOpensOnlyTheNext ==
  lastEvent.kind = "continue" =>
    \A t \in SectionSet : collapsed[t] = (t # Following(lastEvent.section))

\* Continue was pressed on Productos Adicionales.
C14_ContinuedFromAdicionales ==
  /\ lastEvent.kind = "continue"
  /\ lastEvent.section = "adicionales"
  /\ ~collapsed["infoAdicional"]

\* C15: whenever the predicate of Direccion is true, region and comuna are
\* non-empty and the street address is non-empty and passes validateAddress.
C15_AddressPredicateImpliesValid ==
  canContinueDireccion(fields) =>
    /\ fields.region # ""
    /\ fields.comuna # ""
    /\ fields.direccion # ""
    /\ validateAddress(DireccionChars(fields.direccion))

\* The address was edited and the section left through its Continue button.
C15_ContinuedFromDireccion ==
  /\ lastEvent.kind = "continue"
  /\ lastEvent.section = "direccion"
  /\ canContinueDireccion(fields)
  /\ edits > 0

\* C17: formatRut, formatPhone and formatAddress are idempotent.
C17_FormattersIdempotent ==
  /\ formatRut(formatRut(text)) = formatRut(text)
  /\ formatPhone(formatPhone(text)) = formatPhone(text)
  /\ formatAddress(formatAddress(text)) = formatAddress(text)

\* formatRut was applied to a value that formatRut had made out of another.
C17_FormattedAgain ==
  /\ applied.fn = "formatRut"
  /\ Len(applied.to) > 1
  /\ \E raw \in TextInputs : raw # applied.to /\ formatRut(raw) = applied.to

DigitValue(c) ==
  CASE c = "0" -> 0 [] c = "1" -> 1 [] c = "2" -> 2 [] c = "3" -> 3 [] c = "4" -> 4
    [] c = "5" -> 5 [] c = "6" -> 6 [] c = "7" -> 7 [] c = "8" -> 8 [] c = "9" -> 9

\* The sum of the modulo-11 check: weights 2..7, from the last digit leftwards.
RECURSIVE WeightedSum(_, _)
WeightedSum(body, weight) ==
  IF body = << >> THEN 0
  ELSE DigitValue(body[Len(body)]) * weight
         + WeightedSum(SubSeq(body, 1, Len(body) - 1),
                       IF weight = 7 THEN 2 ELSE weight + 1)

CheckCharacter(body) ==
  LET r == 11 - (WeightedSum(body, 2) % 11)
  IN IF r = 11 THEN "0" ELSE IF r = 10 THEN "k"
     ELSE CHOOSE c \in Digits : DigitValue(c) = r

\* 7 or 8 digits, a hyphen and one check character.
RutShape(s) ==
  \E n \in {7, 8} :
    /\ Len(s) = n + 2
    /\ \A i \in 1..n : s[i] \in Digits
    /\ s[n + 1] = "-"
    /\ s[n + 2] \in Digits \cup {"k", "K"}

\* A string of that shape whose check character is the one of its digits.
ValidRut(s) ==
  /\ RutShape(s)
  /\ (IF s[Len(s)] = "K" THEN "k" ELSE s[Len(s)])
       = CheckCharacter(SubSeq(s, 1, Len(s) - 2))

\* C18: validateRut accepts every valid Chilean ID of 7 or 8 digits, a hyphen
\* and a check character, and rejects every string of another shape.
C18_RutShapeDecides ==
  applied.fn = "validateRut" =>
    /\ ValidRut(applied.to) => applied.ok
    /\ ~RutShape(applied.to) => ~applied.ok

\* A valid ID with check character k was accepted.
C18_ValidRutAccepted ==
  /\ applied.fn = "validateRut"
  /\ ValidRut(applied.to)
  /\ applied.to[Len(applied.to)] = "k"
  /\ applied.ok

\* C19: validatePhone accepts a string if and only if it is a 9 followed by
\* exactly 8 further digits.
C19_PhoneNineThenEightDigits ==
  applied.fn = "validatePhone" =>
    (applied.ok <=>
       \E rest \in {SubSeq(applied.to, 2, Len(applied.to))} :
         /\ applied.to = <<"9">> \o rest
         /\ Len(rest) = 8
         /\ \A i \in 1..8 : rest[i] \in Digits)

\* A number of ten digits that starts with 9 was rejected.
C19_TenDigitsRejected ==
  /\ applied.fn = "validatePhone"
  /\ Len(applied.to) = 10
  /\ \A i \in 1..10 : applied.to[i] \in Digits
  /\ applied.to[1] = "9"
  /\ ~applied.ok

\* The rows invocation h has written with values.batchUpdate.
RowsWritten(h) == {log[h][i].row : i \in Ops(h, "batchUpdate")}

\* C20: submissions that each write a spreadsheet row use pairwise distinct
\* rows, whether handled in turn or by invocations that run together: none
\* overwrites the row of another, and no two pedidos rows carry the same
\* fila_sheets.
C20_RowsPairwiseDistinct ==
  /\ \A g \in cfg.slots, h \in cfg.slots :
       g # h => RowsWritten(g) \cap RowsWritten(h) = {}
  /\ \A p \in pedidos, q \in pedidos :
       (p # q /\ RowsWritten(p.by) # {} /\ RowsWritten(q.by) # {})
         => p.fila_sheets # q.fila_sheets

\* Two invocations have each written a spreadsheet row and inserted a pedidos
\* row.
C20_BothWroteARow ==
  /\ \A h \in H : h \in cfg.slots /\ RowsWritten(h) # {}
  /\ Cardinality(pedidos) = 2

\* C21: the form is finalized only in a state in which the predicates of all
\* six sections hold together.
C21_FinalizedOnlyIfAllValid ==
  page = "confirmacion" => \A s \in SectionSet : PredicateOf(s)

\* The form was finalized after an edit made in an earlier section.
C21_FinalizedAfterEdits ==
  /\ page = "confirmacion"
  /\ lastEvent.kind = "finalizar"
  /\ edits > 0

\* canContinuePlan over the props of Plan: the plans are shown and one is
\* selected.
PlanPredicateHolds == shouldShowPlans(sel) /\ sel.selectedPlan # NoPlan

Offered == {Opciones[i].nombre : i \in DOMAIN Opciones}

\* C22: whenever the predicate of Plan holds and the fetch is over, the plan
\* selected is one of the options the filter offers for the current brand,
\* segment, sale type, services, speed and tier.
C22_SelectedPlanIsOffered ==
  (PlanPredicateHolds /\ ~loading) => sel.selectedPlan \in Offered

\* A plan was picked from two options on screen.
C22_PlanPicked ==
  /\ PlanPredicateHolds
  /\ ~loading
  /\ sel.selectedPlan \in Offered
  /\ Cardinality(Offered) >= 2

\* The positions in the log of invocation h of the operation op.
FirstOp(h, op) == CHOOSE i \in Ops(h, op) : \A j \in Ops(h, op) : i <= j

\* C23: in normal mode a pedidos row is inserted only after the spreadsheet
\* row of its order has been written; an invocation whose Google Sheets call
\* failed answers 500 with success false and inserts nothing; and a pedidos
\* row never exists without the spreadsheet row of its order.
C23_PedidoOnlyWithItsRow ==
  \A h \in cfg.slots :
    inv[h].test = "normal" =>
      /\ Ops(h, "insert") # {} =>
           /\ Ops(h, "batchUpdate") # {}
           /\ FirstOp(h, "batchUpdate") < FirstOp(h, "insert")
      /\ (inv[h].pc = "done" /\ inv[h].method = "POST" /\ Ops(h, "batchUpdate") = {}) =>
           /\ inv[h].resp.status = 500
           /\ ~inv[h].resp.success
           /\ \A p \in pedidos : p.by # h
      /\ \A p \in pedidos :
           p.by = h =>
             /\ p.fila_sheets \in DOMAIN sheet
             /\ sheet[p.fila_sheets].kind = "order"
             /\ sheet[p.fila_sheets].by = h

\* A normal-mode invocation inserted its pedidos row and another one wrote a
\* spreadsheet row afterwards.
C23_InsertedThenOtherWrote ==
  \E g \in cfg.slots, h \in cfg.slots :
    /\ g # h
    /\ inv[g].test = "normal"
    /\ \E p \in pedidos : p.by = g
    /\ inv[h].pc = "done"
    /\ Ops(h, "batchUpdate") # {}

\* C24: the commune the form holds belongs to the region selected, so the
\* predicate of Direccion never holds with a commune of another region, the
\* time the lookups are in flight included.
C24_ComunaOfSelectedRegion ==
  /\ fields.comuna # "" => fields.comuna \in ComunasOf(fields.region)
  /\ canContinueDireccion(fields) => fields.comuna \in ComunasOf(fields.region)

\* The region was changed while a commune of the former region was selected.
C24_RegionChangedWithComuna ==
  /\ lastEvent.kind = "edit"
  /\ lastEvent.section = "direccion"
  /\ ~collapsed["direccion"]
  /\ fields.region = "r2"
  /\ \E st \in StoredBefore : st.saved /\ st.data.region = "r1" /\ st.data.comuna = "c1"

\* C25: within one order every successful upload of otros-documentos is stored
\* under a key different from the keys of the documents still listed, whatever
\* the uploads and removals before it: a listed document is never overwritten.
C25_ListedDocumentNeverOverwritten == ~docs.clobbered

\* A document was stored after one was removed from the list.
C25_UploadedAfterRemoval ==
  /\ docs.removed
  /\ docs.lastOp = "put"
  /\ ~docs.uploading
  /\ Len(docs.urls) >= 2

C27_SavedDataKeptUnlessSuccess ==
  [][(storage.saved /\ storage' # storage) => conf'.last = "success"]_vars

\* The form was shown again after a submission failed.
C27_ReturnedAfterFailure ==
  /\ page = "form"
  /\ conf.last = "regresar"
  /\ conf.sent >= 1
  /\ ~conf.succeeded

\* A business day: one of the ten days that follow today, not a Sunday, and
\* not a date of the holidays table.
BusinessDay(c, d) ==
  /\ d \in (c.hoy + 1)..(c.hoy + DaysAhead)
  /\ d % 7 # 0
  /\ d \notin c.tabla

\* C28: the scheduling date selected is always a business day; a click on a
\* day that is not one leaves the selected date as it was.
C28_SelectedDateIsBusinessDay ==
  cal.value # 0 => BusinessDay(cal, cal.value)

\* A date was selected from a calendar that had loaded holidays.
C28_DateSelected ==
  /\ ~cal.loading
  /\ cal.feriadosDB # {}
  /\ cal.value # 0
  /\ cal.clicked # 0

\* C29: whenever the sale type is paquetizacion and the form has settled, the
\* three service flags are true, the category the plans are filtered by is
\* paquetizacion, and no service checkbox answers.
C29_PaquetizacionForcesServices ==
  fields.selectedTipoVenta = "paquetizacion" =>
    /\ fields.hasInternet /\ fields.hasTelevision /\ fields.hasTelefonia
    /\ categoria(fields) = "paquetizacion"
    /\ \A k \in BoolKeys : ~Rendered(k, fields, collapsed)

\* The sale type was set to paquetizacion before any service had been chosen.
C29_PaquetizacionChosen ==
  /\ lastEvent.kind = "edit"
  /\ lastEvent.section = "general"
  /\ fields.selectedTipoVenta = "paquetizacion"
  /\ fields.velocidadInternet = ""
  /\ fields.tipoTelevision = ""
  /\ fields.selectedPlan = ""

\* C30: the quantity encoded in selectedAdicionales for every selected decoder
\* or extender is between 1 and 3 after any checks, unchecks, increments and
\* decrements; incrementing at 3 and decrementing at 1 change nothing.
C30_QuantityBetweenOneAndThree ==
  /\ \A n \in DOMAIN adic.selected :
       requiereCantidad(adic.selected[n].nombre) => adic.selected[n].n \in 1..3
  /\ \A n \in DOMAIN adic.selected :
       ~requiereCantidad(adic.selected[n].nombre) => adic.selected[n].n = 0
  /\ Incrementada(3) = 3
  /\ Decrementada(1) = 1
  /\ \A c \in 1..3 : Incrementada(c) \in 1..3 /\ Decrementada(c) \in 1..3

\* An extender was raised to three units while another product was selected.
C30_RaisedToThree ==
  /\ adic.last = "incrementar"
  /\ Len(adic.selected) >= 2
  /\ \E n \in DOMAIN adic.selected : adic.selected[n] = Item("Extensor", 3)

====
